---- MODULE Spec2Model ----
(***************************************************************************)
(* Model of the webshot screenshot service.                                *)
(*                                                                         *)
(*   Spec         the render session pool of services/browser.ts:          *)
(*                captureScreenshot calls interleaving at their await      *)
(*                points, the disconnect handler and closeBrowser.         *)
(*   SiteSpec     one site crawl job of routes/site.ts: the POST handler,  *)
(*                processSiteCapture with its workers, and the updates of  *)
(*                the site_captures row. A query that rejects has not      *)
(*                been applied; queries in flight at the same time are     *)
(*                applied in either order (pg pool, max 20 connections).   *)
(*   SitemapSpec  one collectAllUrls call of services/sitemap.ts over the  *)
(*                contents of a tree of sitemaps.                          *)
(*   RateSpec     authMiddleware and rateLimitMiddleware of middleware/:   *)
(*                requests of the configured API keys at increasing        *)
(*                instants, and the periodic pruning of the windows.       *)
(*   SweepSpec    runCleanup of jobs/cleanup.ts: invocations by the timer  *)
(*                or directly, each suspended at its awaits, over a store  *)
(*                of artifacts and site jobs whose calls may fail.         *)
(*   DiscoverSpec one discoverSitemapUrl call of services/sitemap.ts,      *)
(*                suspended at each fetchUrl, which resolves or rejects.   *)
(*   ShutdownSpec the shutdown handler of index.ts, called once per signal *)
(*                and suspended at its awaits, while pages are leased and  *)
(*                given back.                                              *)
(*   QueueSpec    acquirePage, releasePage and closeBrowser of             *)
(*                services/browser.ts, for the order in which queued       *)
(*                leases are served.                                       *)
(*   CaptureSpec  the page operations of captureScreenshot calls, each     *)
(*                resolving or rejecting.                                  *)
(*   CrawlSpec    one collectAllUrls call of services/sitemap.ts, call by  *)
(*                call, over sitemaps that may list themselves and each    *)
(*                other; CrawlFairSpec adds that every step is taken.      *)
(*   SubmitSpec   the POST /site handler of routes/site.ts from the body   *)
(*                to the scheduling of background processing.              *)
(*   ServeSpec    the handlers of GET /screenshot/:id and                  *)
(*                GET /screenshot/:id/download on one artifact that        *)
(*                expires and is removed meanwhile.                        *)
(***************************************************************************)
EXTENDS Integers, Sequences, FiniteSets, TLC

(***************************************************************************)
(* Bounds of the model.                                                    *)
(***************************************************************************)
\* captureScreenshot calls in flight (each caller makes one call)
NumCallers == 3
\* config.maxConcurrentPages (MAX_CONCURRENT_PAGES, read from the environment)
MaxConcurrentPages == 1
\* unexpected engine disconnects in one behaviour
MaxDisconnects == 1
\* sleeps of closeBrowser's wait loop that fit into maxWait (the source has
\* maxWait = 30000 ms and sleeps of 1000 ms)
MaxWaitSleeps == 1
\* URLs of a site crawl job (sortedUrls.length is 1..MaxUrls)
MaxUrls == 3

\* page URLs listed by one leaf sitemap (0..MaxLeafUrls)
MaxLeafUrls == 2
\* maxPages of a collectAllUrls call (0..MaxBudget)
MaxBudget == 3
\* requests reaching authMiddleware in one behaviour
MaxRequests == 3
\* runCleanup invocations in one behaviour
MaxInvocations == 2
\* artifacts (rows of screenshots) in the store
NumArtifacts == 2

\* routes/site.ts: const SITE_CAPTURE_CONCURRENCY = 2
SITE_CAPTURE_CONCURRENCY == 2
\* services/sitemap.ts: const MAX_SITEMAP_DEPTH = 3
MAX_SITEMAP_DEPTH == 3

Callers == 1..NumCallers
NoCaller == 0

VARIABLES
    \* ---- services/browser.ts: module state
    browser,         \* "null" or "open": let browser: Browser | null
    isShuttingDown,  \* let isShuttingDown = false
    activePages,     \* let activePages = 0
    pageQueue,       \* const pageQueue: queued acquirePage promises, by caller
    \* ---- services/browser.ts: one captureScreenshot call per caller
    pc,              \* where the call is suspended
    page,            \* page[c]: a session opened for c is open
    next,            \* next[c]: the lease releasePage of c dequeued (const next)
    bodyOk,          \* bodyOk[c]: the try block of captureScreenshot returned
    relaunching,     \* initBrowser calls of the disconnect handler awaiting launch
    disconnects,     \* disconnect events so far
    shutdown,        \* position of closeBrowser
    startedAfter,    \* startedAfter[c]: the dequeued leases that were awaiting
                     \* their session when c called acquirePage
    failure,         \* failure[c]: where the error that ended call c came from
    releases,        \* releases[c]: releasePage calls that closed c's page and
                     \* decremented the counter
    waited,          \* sleeps of closeBrowser's wait loop so far
    afterDisconnect, \* afterDisconnect[c]: the engine had disconnected before
                     \* call c began
    \* ---- routes/site.ts: one site crawl job (POST /site, processSiteCapture)
    jpc,             \* where the request handler / background task is
    totalUrls,       \* sortedUrls.length; the URLs are 1..totalUrls in sorted order
    queue,           \* const queue = [...urls]
    capturedCount,   \* let capturedCount = 0
    failedCount,     \* let failedCount = 0
    wpc,             \* wpc[w]: where worker w is suspended
    entry,           \* entry[w]: the URL worker w dequeued (const entry)
    progress,        \* progress[w]: arguments of w's updateSiteCaptureProgress in flight
    finalStatus,     \* const finalStatus
    siteCapture,     \* the site_captures row: status, capturedPages, failedPages, totalPages
    dequeued,        \* dequeued[u]: how many times URL u was shifted off the queue
    handled,         \* handled[u]: how many processUrl calls for URL u have returned
    outcome,         \* outcome[u]: what processUrl returned for u
    statusWrites,    \* completeSiteCapture updates applied to the row
    response,        \* what the POST handler sent: status code and totalPages
    stored,          \* stored[u]: what the processUrl call for URL u left behind:
                     \* the object in the bucket, the row in screenshots
    \* ---- services/sitemap.ts: one collectAllUrls call
    mpc,             \* "idle", "collecting", "done"
    world,           \* world[s]: what fetching sitemap s gives
    maxPages,        \* the maxPages argument of the top-level call
    result,          \* the SitemapResult returned, with the fetchUrl calls made
    \* ---- middleware/auth.ts, middleware/rateLimit.ts
    apiKeysConfig,   \* let apiKeysConfig: the keys array (empty while null)
    now,             \* Date.now()
    rateLimitWindows,\* const rateLimitWindows = new Map(), by key name
    requests,        \* requests handled so far
    lastRequest,     \* the last request: key, instant, response
    admitted,        \* admitted[k]: instants of the requests of key k that were admitted
    \* ---- jobs/cleanup.ts and the stores it sweeps
    isRunning,       \* let isRunning = false
    spc,             \* spc[i]: where invocation i of runCleanup is suspended
    batch,           \* batch[i]: expiredScreenshots not yet visited by the for loop
    siteBatch,       \* siteBatch[i]: expiredSiteCaptures not yet visited
    screenshots,     \* screenshots[a]: status of the row, "deleted" when there is none
    pastDeadline,    \* pastDeadline[a]: expires_at < NOW()
    blobs,           \* blobs[a]: the object is in the bucket
    siteJob,         \* status of the site_captures row, "deleted" when there is none
    sitePastDeadline,\* expires_at < NOW() for the site job
    \* of the run that started last:
    selected,        \* the artifacts getExpiredScreenshots returned
    attempted,       \* artifacts whose deleteScreenshot call was made
    blobFailed,      \* artifacts whose deleteScreenshot call rejected
    markFailed,      \* artifacts whose updateScreenshotStatus call rejected
    sitesSwept,      \* "no", or how getExpiredSiteCaptures settled
    \* ---- services/sitemap.ts: one discoverSitemapUrl call
    dpc,             \* where the call is suspended, "returned" or "thrown"
    baseUrl,         \* the baseUrl argument
    providedUrl,     \* the providedUrl argument
    fromRobots,      \* const fromRobots
    tried,           \* const tried: string[]
    fetches,         \* the fetchUrl calls made: <<url, "pending" | "ok" | "failed">>
    discovered,      \* the URL returned
    \* ---- index.ts: the shutdown handler and what it shuts down
    signals,         \* SIGTERM / SIGINT signals delivered so far
    sdpc,            \* sdpc[i]: where the shutdown call of signal i is suspended
    slept,           \* slept[i]: sleeps of the wait loop of closeBrowser in call i
    listening,       \* the HTTP server accepts connections
    cleanupInterval, \* let cleanupInterval: "set" or "null"
    leases,          \* activePages as closeBrowser reads it
    engine,          \* browser as closeBrowser reads it: "open" or "null"
    dbPool,          \* let pool: "open", "ending" (pool.end() called) or "null"
    steps,            \* the calls the shutdown handlers made, in order
    \* ---- services/browser.ts: the queue of acquirePage, seen lease by lease
    leasing,         \* the pool by lease: lpc, slots, waitingLeases, stopping, enqueued, shifted, grants
    \* ---- services/browser.ts: the steps of captureScreenshot on its page
    captures,        \* captures[c]: args, pc, trail and result of captureScreenshot call c
    \* ---- services/sitemap.ts: collectAllUrls call by call, over sitemaps that may list each other
    crawl,           \* the top-level collectAllUrls call: pc, graph, maxPages, frames, fetchCount, result
    \* ---- routes/site.ts: the POST /site handler up to the start of background processing
    submission,      \* one POST /site request: hpc, parsed, sitemapFound, sitemapResult, jobRow, reply, background
    \* ---- the download routes: GET /screenshot/:id and GET /screenshot/:id/download
    artifact,        \* one artifact: status of its row in screenshots, past (deadline), blob
    gets             \* gets[r]: GET request r for the artifact: pc, kind, read, status

poolVars == <<browser, isShuttingDown, activePages, pageQueue, pc, page, next,
              bodyOk, relaunching, disconnects, shutdown, startedAfter,
              failure, releases, waited, afterDisconnect>>

siteVars == <<jpc, totalUrls, queue, capturedCount, failedCount, wpc, entry,
              progress, finalStatus, siteCapture, dequeued, handled, outcome,
              statusWrites, response, stored>>

sitemapVars == <<mpc, world, maxPages, result>>

rateVars == <<apiKeysConfig, now, rateLimitWindows, requests, lastRequest,
              admitted>>

sweepVars == <<isRunning, spc, batch, siteBatch, screenshots, pastDeadline,
               blobs, siteJob, sitePastDeadline, selected, attempted,
               blobFailed, markFailed, sitesSwept>>

discoverVars == <<dpc, baseUrl, providedUrl, fromRobots, tried, fetches,
                  discovered>>

shutdownVars == <<signals, sdpc, slept, listening, cleanupInterval, leases,
    engine, dbPool, steps>>

queueVars == <<leasing>>

captureVars == <<captures>>

crawlVars == <<crawl>>

submitVars == <<submission>>

serveVars == <<artifact, gets>>

nonPoolVars == <<siteVars, sitemapVars, rateVars, sweepVars, discoverVars,
    shutdownVars,
    queueVars,
    captureVars,
    crawlVars,
    submitVars,
    serveVars>>
nonSiteVars == <<poolVars, sitemapVars, rateVars, sweepVars, discoverVars,
    shutdownVars,
    queueVars,
    captureVars,
    crawlVars,
    submitVars,
    serveVars>>
nonSitemapVars == <<poolVars, siteVars, rateVars, sweepVars, discoverVars,
    shutdownVars,
    queueVars,
    captureVars,
    crawlVars,
    submitVars,
    serveVars>>
nonRateVars == <<poolVars, siteVars, sitemapVars, sweepVars, discoverVars,
    shutdownVars,
    queueVars,
    captureVars,
    crawlVars,
    submitVars,
    serveVars>>
nonSweepVars == <<poolVars, siteVars, sitemapVars, rateVars, discoverVars,
    shutdownVars,
    queueVars,
    captureVars,
    crawlVars,
    submitVars,
    serveVars>>
nonDiscoverVars == <<poolVars, siteVars, sitemapVars, rateVars, sweepVars,
    shutdownVars,
    queueVars,
    captureVars,
    crawlVars,
    submitVars,
    serveVars>>

nonShutdownVars == <<poolVars, siteVars, sitemapVars, rateVars, sweepVars,
    discoverVars,
    queueVars,
    captureVars,
    crawlVars,
    submitVars,
    serveVars>>

nonQueueVars == <<poolVars, siteVars, sitemapVars, rateVars, sweepVars, discoverVars,
    shutdownVars,
    captureVars,
    crawlVars,
    submitVars,
    serveVars>>

nonCaptureVars == <<poolVars, siteVars, sitemapVars, rateVars, sweepVars, discoverVars,
    shutdownVars, queueVars,
    crawlVars,
    submitVars,
    serveVars>>

nonCrawlVars == <<poolVars, siteVars, sitemapVars, rateVars, sweepVars, discoverVars,
    shutdownVars, queueVars, captureVars,
    submitVars,
    serveVars>>

nonSubmitVars == <<poolVars, siteVars, sitemapVars, rateVars, sweepVars, discoverVars,
    shutdownVars, queueVars, captureVars, crawlVars,
    serveVars>>

nonServeVars == <<poolVars, siteVars, sitemapVars, rateVars, sweepVars, discoverVars,
    shutdownVars, queueVars, captureVars, crawlVars, submitVars>>

vars == <<poolVars, siteVars, sitemapVars, rateVars, sweepVars, discoverVars,
    shutdownVars,
    queueVars,
    captureVars,
    crawlVars,
    submitVars,
    serveVars>>

Range(seq) == {seq[i] : i \in 1..Len(seq)}
Min(a, b) == IF a < b THEN a ELSE b
Max(a, b) == IF a > b THEN a ELSE b

(***************************************************************************)
(* services/browser.ts                                                     *)
(***************************************************************************)

\* The leases a releasePage has shifted off the queue and not yet settled.
PendingHandoffs == {next[r] : r \in {x \in Callers : next[x] # NoCaller}}

\* Sessions open for a caller (opened by newPage, not yet closed).
LeasedSessions == Cardinality({c \in Callers : page[c]})

\* Suspension point of `await initBrowser()`: initBrowser returns at once when
\* browser is set, and otherwise awaits puppeteer.launch.
InitBrowserPc(prefix) ==
    IF browser = "open" THEN prefix \o "_init" ELSE prefix \o "_launch"

\* How a finished captureScreenshot call ends: the try block's outcome.
Finished(c) == IF bodyOk[c] THEN "done" ELSE "failed"

InitPool ==
    /\ browser = "open"
    /\ isShuttingDown = FALSE
    /\ activePages = 0
    /\ pageQueue = <<>>
    /\ pc = [c \in Callers |-> "idle"]
    /\ page = [c \in Callers |-> FALSE]
    /\ next = [c \in Callers |-> NoCaller]
    /\ bodyOk = [c \in Callers |-> FALSE]
    /\ relaunching = 0
    /\ disconnects = 0
    /\ shutdown = "running"
    /\ startedAfter = [c \in Callers |-> {}]
    /\ failure = [c \in Callers |-> "none"]
    /\ releases = [c \in Callers |-> 0]
    /\ waited = 0
    /\ afterDisconnect = [c \in Callers |-> FALSE]

\* The error of a call, by where it was raised:
\*   "refused"   captureScreenshot: throw new Error('Browser is shutting down')
\*   "rejected"  closeBrowser: next.reject(new Error('Browser is shutting down'))
\*   "acquire"   initBrowser, newPage or setUserAgent threw in acquirePage
\*   "handoff"   releasePage: next.reject(error)
\*   "capture"   the try block of captureScreenshot threw
Fails(c, origin) ==
    /\ pc' = [pc EXCEPT ![c] = "failed"]
    /\ failure' = [failure EXCEPT ![c] = origin]

\* startedAfter and afterDisconnect describe the calls that wait for a page or hold
\* one; they are cleared for the calls in S, which are past that.
Forget(S) ==
    /\ startedAfter' = [c \in Callers |-> IF c \in S THEN {} ELSE startedAfter[c]]
    /\ afterDisconnect' = [c \in Callers |-> c \notin S /\ afterDisconnect[c]]

\* captureScreenshot up to the first await of acquirePage. Callers are
\* numbered in the order of their calls.
CaptureStart(c) ==
    /\ pc[c] = "idle"
    /\ \A d \in Callers : d < c => pc[d] # "idle"
    /\ IF isShuttingDown
       THEN /\ Fails(c, "refused")
            /\ UNCHANGED <<activePages, pageQueue, startedAfter, afterDisconnect>>
       ELSE /\ startedAfter' = [startedAfter EXCEPT ![c] = PendingHandoffs]
            /\ afterDisconnect' = [afterDisconnect EXCEPT ![c] = disconnects > 0]
            /\ IF activePages < MaxConcurrentPages
               THEN /\ activePages' = activePages + 1
                    /\ pc' = [pc EXCEPT ![c] = InitBrowserPc("acq")]
                    /\ UNCHANGED pageQueue
               ELSE /\ pageQueue' = Append(pageQueue, c)
                    /\ pc' = [pc EXCEPT ![c] = "queued"]
                    /\ UNCHANGED activePages
            /\ UNCHANGED failure
    /\ UNCHANGED <<nonPoolVars, browser, isShuttingDown, page, next, bodyOk, relaunching,
                   disconnects, shutdown, releases, waited>>

\* acquirePage resumes from `await initBrowser()` and calls newPage.
AcquireInit(c) ==
    /\ \/ /\ pc[c] = "acq_init"
          /\ pc' = [pc EXCEPT ![c] = "acq_newPage"]
          /\ UNCHANGED <<browser, failure, startedAfter, afterDisconnect>>
       \/ /\ pc[c] = "acq_launch"
          /\ \/ /\ browser' = "open"
                /\ pc' = [pc EXCEPT ![c] = "acq_newPage"]
                /\ UNCHANGED <<failure, startedAfter, afterDisconnect>>
             \/ /\ Fails(c, "acquire")
                /\ Forget({c})
                /\ UNCHANGED browser
    /\ UNCHANGED <<nonPoolVars, isShuttingDown, activePages, pageQueue, page, next, bodyOk,
                   relaunching, disconnects, shutdown, releases, waited>>

\* acquirePage resumes from `await currentBrowser.newPage()`.
AcquireNewPage(c) ==
    /\ pc[c] = "acq_newPage"
    /\ \/ /\ browser = "open"
          /\ page' = [page EXCEPT ![c] = TRUE]
          /\ pc' = [pc EXCEPT ![c] = "acq_ua"]
          /\ UNCHANGED <<failure, startedAfter, afterDisconnect>>
       \/ /\ Fails(c, "acquire")
          /\ Forget({c})
          /\ UNCHANGED page
    /\ UNCHANGED <<nonPoolVars, browser, isShuttingDown, activePages, pageQueue, next, bodyOk,
                   relaunching, disconnects, shutdown, releases, waited>>

\* acquirePage resumes from `await page.setUserAgent()` and returns the page.
AcquireUserAgent(c) ==
    /\ pc[c] = "acq_ua"
    /\ \/ /\ pc' = [pc EXCEPT ![c] = "holding"]
          /\ UNCHANGED <<failure, startedAfter, afterDisconnect>>
       \/ /\ Fails(c, "acquire")
          /\ Forget({c})
    /\ UNCHANGED <<nonPoolVars, browser, isShuttingDown, activePages, pageQueue, page, next,
                   bodyOk, relaunching, disconnects, shutdown, releases, waited>>

\* Mutant of CaptureBody: releasePage is called after the last step only, not
\* in a finally block.
CaptureBodyWithoutFinally(c) ==
    /\ pc[c] = "holding"
    /\ \E ok \in BOOLEAN :
          /\ bodyOk' = [bodyOk EXCEPT ![c] = ok]
          /\ IF ok
             THEN /\ pc' = [pc EXCEPT ![c] = "rel_close"]
                  /\ UNCHANGED failure
             ELSE Fails(c, "capture")
    /\ Forget({c})
    /\ UNCHANGED <<nonPoolVars, browser, isShuttingDown, activePages, pageQueue, page, next,
                   relaunching, disconnects, shutdown, releases, waited>>

\* The try block of captureScreenshot (setViewport, emulateMediaFeatures,
\* goto, addStyleTag, the scroll pass, the waits, screenshot) returns or one of
\* its steps throws; finally calls releasePage, which awaits page.close().
CaptureBody(c) ==
    /\ pc[c] = "holding"
    /\ \E ok \in BOOLEAN : bodyOk' = [bodyOk EXCEPT ![c] = ok]
    /\ pc' = [pc EXCEPT ![c] = "rel_close"]
    /\ Forget({c})
    /\ UNCHANGED <<nonPoolVars, browser, isShuttingDown, activePages, pageQueue, page, next,
                   relaunching, disconnects, shutdown, failure, releases, waited>>

\* captureScreenshot ends after its finally block: it returns the screenshot
\* or rethrows the error of the try block.
Finishes(c) ==
    [pc EXCEPT ![c] = Finished(c)]
FinishFailure(c) ==
    [failure EXCEPT ![c] = IF bodyOk[c] THEN "none" ELSE "capture"]

\* releasePage resumes from `await page.close()`: decrements the counter and,
\* when a lease is queued, shifts it and awaits initBrowser.
ReleaseClose(c) ==
    /\ pc[c] = "rel_close"
    /\ page' = [page EXCEPT ![c] = FALSE]
    /\ activePages' = activePages - 1
    /\ releases' = [releases EXCEPT ![c] = @ + 1]
    /\ IF Len(pageQueue) > 0 /\ ~isShuttingDown
       THEN /\ next' = [next EXCEPT ![c] = Head(pageQueue)]
            /\ pageQueue' = Tail(pageQueue)
            /\ pc' = [pc EXCEPT ![c] = InitBrowserPc("rel")]
            /\ UNCHANGED failure
       ELSE /\ pc' = Finishes(c)
            /\ failure' = FinishFailure(c)
            /\ UNCHANGED <<next, pageQueue>>
    /\ UNCHANGED <<nonPoolVars, browser, isShuttingDown, bodyOk, relaunching, disconnects,
                   shutdown, startedAfter, waited, afterDisconnect>>

\* The catch of releasePage: next.reject(error); releasePage returns.
RejectNext(c) ==
    /\ pc' = [Finishes(c) EXCEPT ![next[c]] = "failed"]
    /\ failure' = [FinishFailure(c) EXCEPT ![next[c]] = "handoff"]
    /\ next' = [next EXCEPT ![c] = NoCaller]
    /\ Forget({next[c]})

\* releasePage resumes from `await initBrowser()`, increments the counter and
\* calls newPage for the dequeued lease.
ReleaseInit(c) ==
    /\ \/ /\ pc[c] = "rel_init"
          /\ activePages' = activePages + 1
          /\ pc' = [pc EXCEPT ![c] = "rel_newPage"]
          /\ UNCHANGED <<browser, next, failure, startedAfter, afterDisconnect>>
       \/ /\ pc[c] = "rel_launch"
          /\ \/ /\ browser' = "open"
                /\ activePages' = activePages + 1
                /\ pc' = [pc EXCEPT ![c] = "rel_newPage"]
                /\ UNCHANGED <<next, failure, startedAfter, afterDisconnect>>
             \/ /\ RejectNext(c)
                /\ UNCHANGED <<browser, activePages>>
    /\ UNCHANGED <<nonPoolVars, isShuttingDown, pageQueue, page, bodyOk, relaunching,
                   disconnects, shutdown, releases, waited>>

\* releasePage resumes from `await currentBrowser.newPage()`.
ReleaseNewPage(c) ==
    /\ pc[c] = "rel_newPage"
    /\ \/ /\ browser = "open"
          /\ page' = [page EXCEPT ![next[c]] = TRUE]
          /\ pc' = [pc EXCEPT ![c] = "rel_ua"]
          /\ UNCHANGED <<next, failure, startedAfter, afterDisconnect>>
       \/ /\ RejectNext(c)
          /\ UNCHANGED page
    /\ UNCHANGED <<nonPoolVars, browser, isShuttingDown, activePages, pageQueue, bodyOk,
                   relaunching, disconnects, shutdown, releases, waited>>

\* releasePage resumes from `await newPage.setUserAgent()`: next.resolve(newPage).
ReleaseUserAgent(c) ==
    /\ pc[c] = "rel_ua"
    /\ \/ /\ pc' = [Finishes(c) EXCEPT ![next[c]] = "holding"]
          /\ failure' = FinishFailure(c)
          /\ next' = [next EXCEPT ![c] = NoCaller]
          /\ UNCHANGED <<startedAfter, afterDisconnect>>
       \/ RejectNext(c)
    /\ UNCHANGED <<nonPoolVars, browser, isShuttingDown, activePages, pageQueue, page, bodyOk,
                   relaunching, disconnects, shutdown, releases, waited>>

\* Mutant of Disconnected: the handler relaunches during shutdown as well.
DisconnectedAlwaysRelaunches ==
    /\ browser = "open"
    /\ disconnects < MaxDisconnects
    /\ disconnects' = disconnects + 1
    /\ browser' = "null"
    /\ page' = [c \in Callers |-> FALSE]
    /\ relaunching' = relaunching + 1
    /\ UNCHANGED <<nonPoolVars, isShuttingDown, activePages, pageQueue, pc, next, bodyOk,
                   shutdown, startedAfter, failure, releases, waited, afterDisconnect>>

\* The engine disconnects: the pages of the lost browser are gone, and
\* browser.on('disconnected') clears browser and, unless shutting down, calls
\* initBrowser, which awaits a new launch. The handler does not touch
\* activePages.
Disconnected ==
    /\ browser = "open"
    /\ disconnects < MaxDisconnects
    /\ disconnects' = disconnects + 1
    /\ browser' = "null"
    /\ page' = [c \in Callers |-> FALSE]
    /\ relaunching' = IF isShuttingDown THEN relaunching ELSE relaunching + 1
    /\ UNCHANGED <<nonPoolVars, isShuttingDown, activePages, pageQueue, pc, next, bodyOk,
                   shutdown, startedAfter, failure, releases, waited, afterDisconnect>>

\* The handler's initBrowser call resumes from `await puppeteer.launch()`.
Relaunched ==
    /\ relaunching > 0
    /\ relaunching' = relaunching - 1
    /\ \/ browser' = "open"
       \/ UNCHANGED browser
    /\ UNCHANGED <<nonPoolVars, isShuttingDown, activePages, pageQueue, pc, page, next, bodyOk,
                   disconnects, shutdown, startedAfter, failure, releases, waited, afterDisconnect>>

\* Where closeBrowser goes when its wait loop ends: `if (browser)`.
AfterWait == IF browser = "open" THEN "closing" ELSE "closed"

\* Mutant of CloseBrowserStart: the queued leases are left in the queue.
CloseBrowserStartKeepsQueue ==
    /\ shutdown = "running"
    /\ isShuttingDown' = TRUE
    /\ shutdown' = IF activePages > 0 THEN "waiting" ELSE AfterWait
    /\ UNCHANGED <<nonPoolVars, browser, activePages, pageQueue, pc, page, next, bodyOk,
                   relaunching, disconnects, startedAfter, failure, releases, waited, afterDisconnect>>

\* closeBrowser up to its first await: sets the flag and rejects every queued
\* lease, then sleeps if pages are active or goes on to close the browser.
CloseBrowserStart ==
    /\ shutdown = "running"
    /\ isShuttingDown' = TRUE
    /\ pc' = [c \in Callers |-> IF c \in Range(pageQueue) THEN "failed" ELSE pc[c]]
    /\ failure' = [c \in Callers |->
                     IF c \in Range(pageQueue) THEN "rejected" ELSE failure[c]]
    /\ pageQueue' = <<>>
    /\ Forget(Range(pageQueue))
    /\ shutdown' = IF activePages > 0 THEN "waiting" ELSE AfterWait
    /\ UNCHANGED <<nonPoolVars, browser, activePages, page, next, bodyOk, relaunching,
                   disconnects, releases, waited>>

\* Mutant of CloseBrowserWait: the loop tests activePages only.
CloseBrowserWaitsForPages ==
    /\ shutdown = "waiting"
    /\ waited' = waited + 1
    /\ shutdown' = IF activePages > 0 THEN "waiting" ELSE AfterWait
    /\ UNCHANGED <<nonPoolVars, browser, isShuttingDown, activePages, pageQueue, pc, page,
                   next, bodyOk, relaunching, disconnects, startedAfter, failure,
                   releases, afterDisconnect>>

\* closeBrowser resumes from a sleep of its wait loop (1000 ms); the loop goes
\* on while pages are active and maxWait has not elapsed.
\* The elapsed time is kept after the loop when it ended with pages active
\* ('Timeout waiting for pages, force closing browser').
CloseBrowserWait ==
    /\ shutdown = "waiting"
    /\ IF activePages > 0
       THEN /\ waited' = waited + 1
            /\ shutdown' = IF waited + 1 < MaxWaitSleeps THEN "waiting" ELSE AfterWait
       ELSE /\ waited' = 0
            /\ shutdown' = AfterWait
    /\ UNCHANGED <<nonPoolVars, browser, isShuttingDown, activePages, pageQueue, pc, page,
                   next, bodyOk, relaunching, disconnects, startedAfter, failure,
                   releases, afterDisconnect>>

\* closeBrowser resumes from `await browser.close()`, which closed the
\* browser with its pages or threw (the error is logged); browser = null.
CloseBrowserClose ==
    /\ shutdown = "closing"
    /\ browser' = "null"
    /\ page' = [c \in Callers |-> FALSE]
    /\ shutdown' = "closed"
    /\ UNCHANGED <<nonPoolVars, isShuttingDown, activePages, pageQueue, pc, next, bodyOk,
                   relaunching, disconnects, startedAfter, failure, releases, waited, afterDisconnect>>

NextPool ==
    \/ \E c \in Callers : CaptureStart(c)
    \/ \E c \in Callers : AcquireInit(c)
    \/ \E c \in Callers : AcquireNewPage(c)
    \/ \E c \in Callers : AcquireUserAgent(c)
    \/ \E c \in Callers : CaptureBody(c)
    \/ \E c \in Callers : ReleaseClose(c)
    \/ \E c \in Callers : ReleaseInit(c)
    \/ \E c \in Callers : ReleaseNewPage(c)
    \/ \E c \in Callers : ReleaseUserAgent(c)
    \/ Disconnected
    \/ Relaunched
    \/ CloseBrowserStart
    \/ CloseBrowserWait
    \/ CloseBrowserClose


(***************************************************************************)
(* routes/site.ts and the site_captures queries of services/database.ts    *)
(***************************************************************************)

Workers == 1..SITE_CAPTURE_CONCURRENCY
Urls == 1..MaxUrls
NoUrl == 0
Terminal == {"completed", "failed"}

\* res: nothing sent yet.
NoResponse == [status |-> 0, totalPages |-> 0]

NothingStored == [blob |-> FALSE, row |-> FALSE]

\* The awaits of processUrl, in order; one of them rejects or none does.
ProcessUrlSteps == <<"captureScreenshot", "uploadScreenshot", "saveScreenshotWithSite">>
Rejections == Range(ProcessUrlSteps) \cup {"none"}

\* What processUrl has stored when the await `rejected` threw: the object is
\* in the bucket once uploadScreenshot resolved, the row is there once
\* saveScreenshotWithSite resolved.
StoredWhen(rejected) ==
    [blob |-> rejected \in {"saveScreenshotWithSite", "none"},
     row |-> rejected = "none"]

InitSite ==
    /\ jpc = "idle"
    /\ totalUrls = 0
    /\ queue = <<>>
    /\ capturedCount = 0
    /\ failedCount = 0
    /\ wpc = [w \in Workers |-> "unstarted"]
    /\ entry = [w \in Workers |-> NoUrl]
    /\ progress = [w \in Workers |-> <<0, 0>>]
    /\ finalStatus = "none"
    /\ siteCapture = [status |-> "none", capturedPages |-> 0, failedPages |-> 0,
                      totalPages |-> 0]
    /\ dequeued = [u \in Urls |-> 0]
    /\ handled = [u \in Urls |-> 0]
    /\ outcome = [u \in Urls |-> "none"]
    /\ statusWrites = 0
    /\ response = NoResponse
    /\ stored = [u \in Urls |-> NothingStored]

\* Mutant of FinalStatus: completed only when no URL failed.
FinalStatusNoFailures(captured, failed) ==
    IF failed = 0 THEN "completed" ELSE "failed"

\* const finalStatus = capturedCount > 0 ? 'completed' : 'failed'
FinalStatus(captured, failed) == IF captured > 0 THEN "completed" ELSE "failed"

\* POST /site up to `await createSiteCapture(...)`: the sitemap gave n >= 1
\* URLs (an empty list is answered 400 before any record is created).
SubmitSite(n) ==
    /\ jpc = "idle"
    /\ totalUrls' = n
    /\ jpc' = "creating"
    /\ UNCHANGED <<nonSiteVars, stored, response, queue, capturedCount, failedCount, wpc, entry,
                   progress, finalStatus, siteCapture, dequeued, handled, outcome,
                   statusWrites>>

\* Mutant of CreateSiteCapture: 202 is not sent before the background task
\* is scheduled.
CreateSiteCaptureWithoutResponse ==
    /\ jpc = "creating"
    /\ siteCapture' = [status |-> "processing", capturedPages |-> 0,
                       failedPages |-> 0, totalPages |-> totalUrls]
    /\ jpc' = "accepted"
    /\ UNCHANGED <<nonSiteVars, stored, response, totalUrls, queue, capturedCount, failedCount,
                   wpc, entry, progress, finalStatus, dequeued, handled, outcome,
                   statusWrites>>

\* The handler resumes from createSiteCapture: the row is inserted in
\* 'processing', 202 is sent and processSiteCapture is scheduled with
\* setImmediate; or the INSERT rejects and 500 is sent.
CreateSiteCapture ==
    /\ jpc = "creating"
    /\ \/ /\ siteCapture' = [status |-> "processing", capturedPages |-> 0,
                             failedPages |-> 0, totalPages |-> totalUrls]
          /\ response' = [status |-> 202, totalPages |-> totalUrls]
          /\ jpc' = "accepted"
       \/ /\ jpc' = "error500"
          /\ response' = [status |-> 500, totalPages |-> 0]
          /\ UNCHANGED siteCapture
    /\ UNCHANGED <<nonSiteVars, stored, totalUrls, queue, capturedCount, failedCount, wpc,
                   entry, progress, finalStatus, dequeued, handled, outcome,
                   statusWrites>>

\* The URLs the SITE_CAPTURE_CONCURRENCY workers shift when they are started
\* one after the other: worker w takes the w-th URL, if there is one.
FirstEntry(w) == IF w <= totalUrls THEN w ELSE NoUrl

\* What awaiting Promise.all(workers) leads to once worker states are ws:
\* every worker returned, so finalStatus is computed and completeSiteCapture
\* called; or background processing goes on.
AfterWorkers(ws, captured, failed) ==
    IF \A w \in Workers : ws[w] = "returned"
    THEN /\ jpc' = "completing"
         /\ finalStatus' = FinalStatus(captured, failed)
    ELSE UNCHANGED <<jpc, finalStatus>>

\* The setImmediate callback: processSiteCapture copies the URLs into the
\* queue and starts the workers; each runs to its first await (a worker that
\* finds the queue empty returns).
StartProcessing ==
    /\ jpc = "accepted"
    /\ queue' = [i \in 1..(IF totalUrls > SITE_CAPTURE_CONCURRENCY
                           THEN totalUrls - SITE_CAPTURE_CONCURRENCY ELSE 0)
                   |-> i + SITE_CAPTURE_CONCURRENCY]
    /\ entry' = [w \in Workers |-> FirstEntry(w)]
    /\ wpc' = [w \in Workers |->
                 IF FirstEntry(w) # NoUrl THEN "processUrl" ELSE "returned"]
    /\ dequeued' = [u \in Urls |->
                      IF \E w \in Workers : FirstEntry(w) = u THEN 1 ELSE 0]
    /\ jpc' = "awaiting"
    /\ UNCHANGED <<nonSiteVars, stored, response, totalUrls, capturedCount, failedCount, progress,
                   finalStatus, siteCapture, handled, outcome, statusWrites>>

\* Mutant of ProcessUrlDone: a failure is counted as failed and as captured
\* (the else is missing).
ProcessUrlDoneCountsBoth(w) ==
    /\ wpc[w] = "processUrl"
    /\ \E rejected \in Rejections :
          LET success == rejected = "none"
          IN  /\ capturedCount' = capturedCount + 1
              /\ failedCount' = IF success THEN failedCount ELSE failedCount + 1
              /\ outcome' = [outcome EXCEPT ![entry[w]] = IF success THEN "ok" ELSE "fail"]
              /\ stored' = [stored EXCEPT ![entry[w]] = StoredWhen(rejected)]
    /\ handled' = [handled EXCEPT ![entry[w]] = @ + 1]
    /\ progress' = [progress EXCEPT ![w] = <<capturedCount', failedCount'>>]
    /\ wpc' = [wpc EXCEPT ![w] = "updating"]
    /\ UNCHANGED <<nonSiteVars, response, jpc, totalUrls, queue, entry, finalStatus,
                   siteCapture, dequeued, statusWrites>>

\* Mutant of ProcessUrlDone: processUrl has no catch, so a failing URL makes
\* the worker throw.
ProcessUrlDoneThrows(w) ==
    /\ wpc[w] = "processUrl"
    /\ \E rejected \in Rejections :
          LET success == rejected = "none"
          IN  /\ outcome' = [outcome EXCEPT ![entry[w]] = IF success THEN "ok" ELSE "fail"]
              /\ stored' = [stored EXCEPT ![entry[w]] = StoredWhen(rejected)]
              /\ IF success
                 THEN /\ capturedCount' = capturedCount + 1
                      /\ progress' = [progress EXCEPT ![w] = <<capturedCount', failedCount>>]
                      /\ wpc' = [wpc EXCEPT ![w] = "updating"]
                      /\ UNCHANGED jpc
                 ELSE /\ wpc' = [wpc EXCEPT ![w] = "thrown"]
                      /\ jpc' = IF jpc = "awaiting" THEN "catching" ELSE jpc
                      /\ UNCHANGED <<capturedCount, progress>>
    /\ handled' = [handled EXCEPT ![entry[w]] = @ + 1]
    /\ UNCHANGED <<nonSiteVars, response, failedCount, totalUrls, queue, entry,
                   finalStatus, siteCapture, dequeued, statusWrites>>

\* Worker w resumes from `await processUrl(entry)`, in which one of the awaits
\* rejected (caught, false is returned) or none did: counts the result and
\* calls updateSiteCaptureProgress with the counters as they are now.
ProcessUrlDone(w) ==
    /\ wpc[w] = "processUrl"
    /\ \E rejected \in Rejections :
          LET success == rejected = "none"
          IN  /\ capturedCount' = IF success THEN capturedCount + 1 ELSE capturedCount
              /\ failedCount' = IF success THEN failedCount ELSE failedCount + 1
              /\ outcome' = [outcome EXCEPT ![entry[w]] = IF success THEN "ok" ELSE "fail"]
              /\ stored' = [stored EXCEPT ![entry[w]] = StoredWhen(rejected)]
    /\ handled' = [handled EXCEPT ![entry[w]] = @ + 1]
    /\ progress' = [progress EXCEPT ![w] = <<capturedCount', failedCount'>>]
    /\ wpc' = [wpc EXCEPT ![w] = "updating"]
    /\ UNCHANGED <<nonSiteVars, response, jpc, totalUrls, queue, entry, finalStatus,
                   siteCapture, dequeued, statusWrites>>

\* Mutant of Shift: the first element is read but left in the queue.
ShiftNothing(q) == q

\* queue.shift(): the queue without its first element.
Shift(q) == Tail(q)

\* Worker w resumes from `await updateSiteCaptureProgress(...)`. The UPDATE
\* was applied to the row: the loop goes on with the next URL, or the worker
\* returns. Or the query rejected: the worker throws, which rejects
\* Promise.all and runs the catch handler of the background task.
ProgressDone(w) ==
    /\ wpc[w] = "updating"
    /\ \/ /\ siteCapture' = [siteCapture EXCEPT !.capturedPages = progress[w][1],
                                                !.failedPages = progress[w][2]]
          /\ IF Len(queue) > 0
             THEN /\ entry' = [entry EXCEPT ![w] = Head(queue)]
                  /\ queue' = Shift(queue)
                  /\ dequeued' = [dequeued EXCEPT ![Head(queue)] = @ + 1]
                  /\ wpc' = [wpc EXCEPT ![w] = "processUrl"]
                  /\ UNCHANGED <<jpc, finalStatus>>
             ELSE /\ wpc' = [wpc EXCEPT ![w] = "returned"]
                  /\ AfterWorkers(wpc', capturedCount, failedCount)
                  /\ UNCHANGED <<entry, queue, dequeued>>
       \/ /\ wpc' = [wpc EXCEPT ![w] = "thrown"]
          /\ jpc' = IF jpc = "awaiting" THEN "catching" ELSE jpc
          /\ UNCHANGED <<siteCapture, entry, queue, dequeued, finalStatus>>
    /\ UNCHANGED <<nonSiteVars, stored, response, totalUrls, capturedCount, failedCount, progress,
                   handled, outcome, statusWrites>>

\* Mutant of CompleteDone: the handler that writes 'failed' also runs after a
\* successful completion (finally in place of catch).
CompleteDoneThenCatch ==
    /\ jpc = "completing"
    /\ \/ /\ siteCapture' = [siteCapture EXCEPT !.status = finalStatus]
          /\ statusWrites' = statusWrites + 1
       \/ UNCHANGED <<siteCapture, statusWrites>>
    /\ jpc' = "catching"
    /\ UNCHANGED <<nonSiteVars, stored, response, totalUrls, queue, capturedCount, failedCount, wpc,
                   entry, progress, finalStatus, dequeued, handled, outcome>>

\* processSiteCapture resumes from `await completeSiteCapture(id, finalStatus)`:
\* the status was written, or the query rejected and the catch handler runs.
CompleteDone ==
    /\ jpc = "completing"
    /\ \/ /\ siteCapture' = [siteCapture EXCEPT !.status = finalStatus]
          /\ statusWrites' = statusWrites + 1
          /\ jpc' = "done"
       \/ /\ jpc' = "catching"
          /\ UNCHANGED <<siteCapture, statusWrites>>
    /\ UNCHANGED <<nonSiteVars, stored, response, totalUrls, queue, capturedCount, failedCount, wpc,
                   entry, progress, finalStatus, dequeued, handled, outcome>>

\* The catch handler's completeSiteCapture(id, 'failed') settles: the status
\* was written, or the query rejected and `.catch(() => {})` swallows it.
CatchDone ==
    /\ jpc = "catching"
    /\ \/ /\ siteCapture' = [siteCapture EXCEPT !.status = "failed"]
          /\ statusWrites' = statusWrites + 1
       \/ UNCHANGED <<siteCapture, statusWrites>>
    /\ jpc' = "caught"
    /\ UNCHANGED <<nonSiteVars, stored, response, totalUrls, queue, capturedCount, failedCount, wpc,
                   entry, progress, finalStatus, dequeued, handled, outcome>>

NextSite ==
    \/ \E n \in 1..MaxUrls : SubmitSite(n)
    \/ CreateSiteCapture
    \/ StartProcessing
    \/ \E w \in Workers : ProcessUrlDone(w)
    \/ \E w \in Workers : ProgressDone(w)
    \/ CompleteDone
    \/ CatchDone


(***************************************************************************)
(* services/sitemap.ts                                                     *)
(*                                                                         *)
(* The sitemaps of a site are the nodes 1..6 of a fixed tree; what each    *)
(* holds is an input: a document that cannot be fetched, a sitemap index   *)
(* listing the node's children, or a leaf sitemap with k page URLs.        *)
(***************************************************************************)

Sitemaps == {1, 2, 3, 4, 5, 6}
RootSitemap == 1

\* The nested sitemaps a sitemap index at s lists, in document order
\* (parseSitemapIndex). Sitemap 6 is at depth 3 below the root.
Children(s) ==
    CASE s = 1 -> <<2, 3, 4>>
      [] s = 2 -> <<5>>
      [] s = 5 -> <<6>>
      [] OTHER -> <<>>

Fail == <<"fail", 0>>
Index == <<"index", 0>>
Leaf(k) == <<"leaf", k>>
Documents == {Fail, Index} \cup {Leaf(k) : k \in 0..MaxLeafUrls}

\* The sites collectAllUrls is run on.
Worlds == [Sitemaps -> Documents]

\* parseSitemapUrls: the <url><loc> entries of leaf sitemap s, in order.
LeafUrls(s, k) == [i \in 1..k |-> <<s, i>>]

\* Mutant of Slice: the list is not truncated.
SliceAll(seq, end) == seq

\* Array.prototype.slice(0, end): a negative end counts from the end.
Slice(seq, end) ==
    IF end >= 0
    THEN SubSeq(seq, 1, Min(end, Len(seq)))
    ELSE SubSeq(seq, 1, Max(Len(seq) + end, 0))

EmptyResult == [urls |-> <<>>, errors |-> <<>>, fetched |-> <<>>]

\* result.urls.push(...nestedResult.urls); result.errors.push(...nestedResult.errors)
PushNested(res, nested) ==
    [urls |-> res.urls \o nested.urls,
     errors |-> res.errors \o nested.errors,
     fetched |-> res.fetched \o nested.fetched]

\* Mutant of DepthExceeded: one more level of nesting is resolved.
DepthExceededLate(depth) == depth > MAX_SITEMAP_DEPTH

\* if (depth >= MAX_SITEMAP_DEPTH)
DepthExceeded(depth) == depth >= MAX_SITEMAP_DEPTH

RECURSIVE collectAllUrls(_, _, _, _)
RECURSIVE CollectNested(_, _, _, _, _, _)
RECURSIVE CollectNestedAbortOnError(_, _, _, _, _, _)

\* Mutant of CollectNested: the loop stops at the first nested sitemap that
\* reported an error.
CollectNestedAbortOnError(w, nestedUrls, i, max, depth, res) ==
    IF i > Len(nestedUrls) \/ Len(res.urls) >= max
    THEN res
    ELSE LET nestedResult ==
                 collectAllUrls(w, nestedUrls[i], max - Len(res.urls), depth + 1)
         IN  IF Len(nestedResult.errors) > 0
             THEN PushNested(res, nestedResult)
             ELSE CollectNestedAbortOnError(w, nestedUrls, i + 1, max, depth,
                                            PushNested(res, nestedResult))

\* The loop `for (const nestedUrl of nestedUrls)` of collectAllUrls from its
\* i-th iteration on, res being the result so far.
CollectNested(w, nestedUrls, i, max, depth, res) ==
    IF i > Len(nestedUrls) \/ Len(res.urls) >= max
    THEN res
    ELSE CollectNested(w, nestedUrls, i + 1, max, depth,
                       PushNested(res, collectAllUrls(w, nestedUrls[i],
                                                      max - Len(res.urls),
                                                      depth + 1)))

\* collectAllUrls(sitemapUrl, maxPages, depth) on site w. `fetched` lists the
\* fetchUrl calls in order, each with the maxPages of the call that made it.
collectAllUrls(w, sitemapUrl, max, depth) ==
    IF DepthExceeded(depth)
    THEN [EmptyResult EXCEPT !.errors = << <<"depth", sitemapUrl>> >>]
    ELSE LET fetch == << <<sitemapUrl, max>> >>
         IN  IF w[sitemapUrl] = Fail
             THEN [EmptyResult EXCEPT !.errors = << <<"fetch", sitemapUrl>> >>,
                                      !.fetched = fetch]
             ELSE IF w[sitemapUrl] = Index
             THEN CollectNested(w, Children(sitemapUrl), 1, max, depth,
                                [EmptyResult EXCEPT !.fetched = fetch])
             ELSE [EmptyResult EXCEPT
                      !.urls = Slice(LeafUrls(sitemapUrl, w[sitemapUrl][2]), max),
                      !.fetched = fetch]

InitSitemap ==
    /\ mpc = "idle"
    /\ world = [s \in Sitemaps |-> Fail]
    /\ maxPages = 0
    /\ result = EmptyResult

\* A caller passes the root sitemap URL of some site and a page budget.
SitemapRequest ==
    /\ mpc = "idle"
    /\ \E w \in Worlds, m \in 0..MaxBudget :
          /\ world' = w
          /\ maxPages' = m
    /\ mpc' = "collecting"
    /\ UNCHANGED <<nonSitemapVars, result>>

\* collectAllUrls(sitemapUrl, maxPages) returns.
SitemapCollected ==
    /\ mpc = "collecting"
    /\ result' = collectAllUrls(world, RootSitemap, maxPages, 0)
    /\ mpc' = "done"
    /\ UNCHANGED <<nonSitemapVars, world, maxPages>>

NextSitemap ==
    \/ SitemapRequest
    \/ SitemapCollected


(***************************************************************************)
(* middleware/auth.ts and middleware/rateLimit.ts                          *)
(***************************************************************************)

\* The X-API-Key values of the configured keys, in the order of the keys
\* array, and the names given to keys.
ApiKeyStrings == <<"sk_a", "sk_b">>
KeyNames == {"Production", "Staging"}

\* A rateLimit string "<count>/<unit>" is the pair <<count, unit>>; the unit
\* "hour" does not match /^(\d+)\/(second|minute)$/.
LimitSpecs == {<<1, "second">>, <<2, "second">>, <<2, "minute">>, <<5, "hour">>}

\* Time that passes before a request, in ms.
Deltas == {0, 999, 1000, 60000}

\* api-keys.json: any name, rateLimit and enabled flag for each key; the file
\* is used as parsed, names are not checked for uniqueness.
ApiKeysConfigs ==
    {cfg \in [1..Len(ApiKeyStrings) ->
                 [key : Range(ApiKeyStrings), name : KeyNames,
                  rateLimit : LimitSpecs, enabled : BOOLEAN]] :
        \A i \in 1..Len(ApiKeyStrings) : cfg[i].key = ApiKeyStrings[i]}

\* function parseRateLimit(limit)
parseRateLimit(limit) ==
    IF limit[2] \notin {"second", "minute"}
    THEN [requests |-> 10, windowMs |-> 1000]
    ELSE [requests |-> limit[1],
          windowMs |-> IF limit[2] = "second" THEN 1000 ELSE 60000]

\* validateApiKey(key): the entries apiKeysConfig.keys.find returns, none when
\* the key is unknown or disabled.
validateApiKey(key) ==
    LET found == {i \in 1..Len(apiKeysConfig) : apiKeysConfig[i].key = key}
        first == CHOOSE i \in found : \A j \in found : i <= j
    IN  IF found = {} THEN {}
        ELSE IF ~apiKeysConfig[first].enabled THEN {}
        ELSE {apiKeysConfig[first]}

\* Math.ceil(a / b) for b > 0
Ceil(a, b) == -((-a) \div b)

\* timestamps.filter(ts => now - ts < windowMs)
FilterWindow(timestamps, t, windowMs) ==
    SelectSeq(timestamps, LAMBDA ts : t - ts < windowMs)

NoWindow == [present |-> FALSE, timestamps |-> <<>>]

NoRequest ==
    [key |-> "", at |-> 0, status |-> 0, retryAfter |-> 0, remaining |-> 0,
     ownRecent |-> 0]

InitRate ==
    /\ apiKeysConfig = <<>>
    /\ now = 0
    /\ rateLimitWindows = [n \in KeyNames |-> NoWindow]
    /\ requests = 0
    /\ lastRequest = NoRequest
    /\ admitted = [k \in Range(ApiKeyStrings) |-> <<>>]

\* index.ts: setApiKeysConfig(loadApiKeys(config.configDir)), before listen.
SetApiKeysConfig ==
    /\ apiKeysConfig = <<>>
    /\ \E cfg \in ApiKeysConfigs : apiKeysConfig' = cfg
    /\ UNCHANGED <<nonRateVars, now, rateLimitWindows, requests, lastRequest,
                   admitted>>

\* The requests of key that were admitted less than windowMs before t.
OwnRecent(key, t, windowMs) ==
    Cardinality({i \in 1..Len(admitted[key]) : t - admitted[key][i] < windowMs})

\* rateLimitMiddleware for a request that authMiddleware let through with
\* req.apiKey = apiKey, at instant t.
RateLimit(key, apiKey, t) ==
    LET limit == parseRateLimit(apiKey.rateLimit)
        kept == FilterWindow(rateLimitWindows[apiKey.name].timestamps, t,
                             limit.windowMs)
        oldestTs == IF Len(kept) > 0 THEN kept[1] ELSE t
        retryAfter == Ceil(oldestTs + limit.windowMs - t, 1000)
        seen == [key |-> key, at |-> t, status |-> 200, retryAfter |-> 0,
                 remaining |-> 0,
                 ownRecent |-> OwnRecent(key, t, limit.windowMs)]
    IN  IF Len(kept) >= limit.requests
        THEN /\ rateLimitWindows' =
                   [rateLimitWindows EXCEPT ![apiKey.name] =
                       [present |-> TRUE, timestamps |-> kept]]
             /\ lastRequest' =
                   [seen EXCEPT !.status = 429,
                                !.retryAfter = Max(1, retryAfter)]
             /\ UNCHANGED admitted
        ELSE /\ rateLimitWindows' =
                   [rateLimitWindows EXCEPT ![apiKey.name] =
                       [present |-> TRUE, timestamps |-> Append(kept, t)]]
             /\ lastRequest' =
                   [seen EXCEPT !.remaining = limit.requests - (Len(kept) + 1)]
             /\ admitted' = [admitted EXCEPT ![key] = Append(@, t)]

\* A request with X-API-Key: key arrives d ms after the previous one and runs
\* authMiddleware, then rateLimitMiddleware (neither awaits).
Request(key, d) ==
    /\ apiKeysConfig # <<>>
    /\ requests < MaxRequests
    /\ requests' = requests + 1
    /\ now' = now + d
    /\ IF validateApiKey(key) = {}
       THEN /\ lastRequest' = [NoRequest EXCEPT !.key = key, !.at = now + d,
                                                !.status = 401]
            /\ UNCHANGED <<rateLimitWindows, admitted>>
       ELSE \E apiKey \in validateApiKey(key) : RateLimit(key, apiKey, now + d)
    /\ UNCHANGED <<nonRateVars, apiKeysConfig>>

\* The setInterval callback of rateLimit.ts: timestamps older than one minute
\* are dropped and emptied windows deleted.
PruneWindows ==
    /\ apiKeysConfig # <<>>
    /\ rateLimitWindows' =
          [n \in KeyNames |->
              LET kept == FilterWindow(rateLimitWindows[n].timestamps, now, 60000)
              IN  IF ~rateLimitWindows[n].present \/ Len(kept) = 0
                  THEN NoWindow
                  ELSE [present |-> TRUE, timestamps |-> kept]]
    /\ UNCHANGED <<nonRateVars, apiKeysConfig, now, requests, lastRequest,
                   admitted>>

NextRate ==
    \/ SetApiKeysConfig
    \/ \E key \in Range(ApiKeyStrings), d \in Deltas : Request(key, d)
    \/ PruneWindows

(***************************************************************************)
(* jobs/cleanup.ts                                                         *)
(***************************************************************************)

Invocations == 1..MaxInvocations
Artifacts == 1..NumArtifacts
\* The one site job of the store; artifact 1 was captured for it
\* (screenshots.site_capture_id), the others by single requests.
SiteJobId == 1
SiteCaptureIdOf(a) == IF a = 1 THEN SiteJobId ELSE 0

\* Positions of an invocation between its start and its return.
Executing == {"select", "deleteBlob", "deleteRecord", "markExpired",
              "selectSites", "deleteSite", "logs"}

\* SELECT * FROM screenshots WHERE status = 'completed' AND expires_at < NOW(),
\* the rows with id >= a in ascending order of id.
RECURSIVE ExpiredScreenshotsFrom(_)
ExpiredScreenshotsFrom(a) ==
    IF a > NumArtifacts THEN <<>>
    ELSE (IF screenshots[a] = "completed" /\ pastDeadline[a]
          THEN <<a>> ELSE <<>>) \o ExpiredScreenshotsFrom(a + 1)

\* LIMIT 100 of the query of getExpiredScreenshots.
ExpiredScreenshotsLimit == 100

getExpiredScreenshots ==
    SubSeq(ExpiredScreenshotsFrom(1), 1,
           Min(Len(ExpiredScreenshotsFrom(1)), ExpiredScreenshotsLimit))

\* SELECT * FROM site_captures WHERE expires_at < NOW() AND status != 'pending'
getExpiredSiteCaptures ==
    IF siteJob \notin {"deleted", "pending"} /\ sitePastDeadline
    THEN <<SiteJobId>> ELSE <<>>

InitSweep ==
    /\ isRunning = FALSE
    /\ spc = [i \in Invocations |-> "idle"]
    /\ batch = [i \in Invocations |-> <<>>]
    /\ siteBatch = [i \in Invocations |-> <<>>]
    /\ screenshots = [a \in Artifacts |-> "completed"]
    /\ pastDeadline = [a \in Artifacts |-> FALSE]
    /\ blobs = [a \in Artifacts |-> TRUE]
    /\ siteJob = "processing"
    /\ sitePastDeadline = FALSE
    /\ selected = {}
    /\ attempted = {}
    /\ blobFailed = {}
    /\ markFailed = {}
    /\ sitesSwept = "no"

storeVars == <<screenshots, pastDeadline, blobs, siteJob, sitePastDeadline>>
ghostVars == <<selected, attempted, blobFailed, markFailed, sitesSwept>>

\* Time passes the expires_at of an artifact or of the site job.
ArtifactExpires(a) ==
    /\ ~pastDeadline[a]
    /\ pastDeadline' = [pastDeadline EXCEPT ![a] = TRUE]
    /\ UNCHANGED <<nonSweepVars, isRunning, spc, batch, siteBatch, screenshots,
                   blobs, siteJob, sitePastDeadline, ghostVars>>

SiteJobExpires ==
    /\ ~sitePastDeadline
    /\ sitePastDeadline' = TRUE
    /\ UNCHANGED <<nonSweepVars, isRunning, spc, batch, siteBatch, screenshots,
                   pastDeadline, blobs, siteJob, ghostVars>>

\* processSiteCapture of the site job ends: completeSiteCapture(id, status)
\* updates the row, if it is still there.
SiteJobCompletes ==
    /\ siteJob = "processing"
    /\ siteJob' \in {"completed", "failed"}
    /\ UNCHANGED <<nonSweepVars, isRunning, spc, batch, siteBatch, screenshots,
                   pastDeadline, blobs, sitePastDeadline, ghostVars>>

\* A run starts: nothing selected, attempted or failed yet.
RunStarts ==
    /\ selected' = {}
    /\ attempted' = {}
    /\ blobFailed' = {}
    /\ markFailed' = {}
    /\ sitesSwept' = "no"

\* Invocations are numbered in the order in which they are made.
IsNextInvocation(i) ==
    /\ spc[i] = "idle"
    /\ \A j \in Invocations : j < i => spc[j] # "idle"

\* Mutant of RunCleanup: the isRunning test is missing.
RunCleanupReentrant(i) ==
    /\ IsNextInvocation(i)
    /\ isRunning' = TRUE
    /\ spc' = [spc EXCEPT ![i] = "select"]
    /\ RunStarts
    /\ UNCHANGED <<nonSweepVars, batch, siteBatch, storeVars>>

\* runCleanup() is called, by the timer of startCleanupJob or directly, and
\* runs to its first await (getExpiredScreenshots) or returns.
RunCleanup(i) ==
    /\ IsNextInvocation(i)
    /\ IF isRunning
       THEN /\ spc' = [spc EXCEPT ![i] = "skipped"]
            /\ UNCHANGED <<isRunning, ghostVars>>
       ELSE /\ isRunning' = TRUE
            /\ spc' = [spc EXCEPT ![i] = "select"]
            /\ RunStarts
    /\ UNCHANGED <<nonSweepVars, batch, siteBatch, storeVars>>

\* Mutant of JobFailed: the flag is cleared only at the end of the try block,
\* not in a finally block.
JobFailedKeepsFlag(i) ==
    /\ UNCHANGED isRunning
    /\ spc' = [spc EXCEPT ![i] = "done"]

\* catch (error) of the outer try, then finally { isRunning = false }.
JobFailed(i) ==
    /\ isRunning' = FALSE
    /\ spc' = [spc EXCEPT ![i] = "done"]

\* The for loop over expiredScreenshots moves on after the artifact at the
\* head of rest; after the last one the run awaits getExpiredSiteCaptures.
NextScreenshot(i, rest) ==
    /\ batch' = [batch EXCEPT ![i] = rest]
    /\ spc' = [spc EXCEPT ![i] = IF rest = <<>> THEN "selectSites"
                                  ELSE "deleteBlob"]
    /\ attempted' = IF rest = <<>> THEN attempted
                    ELSE attempted \cup {Head(rest)}

\* await getExpiredScreenshots() settles.
SelectDone(i) ==
    /\ spc[i] = "select"
    /\ \E ok \in BOOLEAN :
          IF ok
          THEN /\ selected' = Range(getExpiredScreenshots)
               /\ NextScreenshot(i, getExpiredScreenshots)
               /\ UNCHANGED isRunning
          ELSE /\ JobFailed(i)
               /\ UNCHANGED <<batch, selected, attempted>>
    /\ UNCHANGED <<nonSweepVars, siteBatch, storeVars, blobFailed, markFailed,
                   sitesSwept>>

\* Mutant of DeleteBlobDone: a rejected blob deletion is not thrown on, the
\* record is deleted all the same.
DeleteBlobDoneThenRecord(i) ==
    /\ spc[i] = "deleteBlob"
    /\ LET a == Head(batch[i])
       IN  \E ok \in BOOLEAN :
              IF ok
              THEN /\ blobs' = [blobs EXCEPT ![a] = FALSE]
                   /\ UNCHANGED blobFailed
              ELSE /\ blobFailed' = blobFailed \cup {a}
                   /\ UNCHANGED blobs
    /\ spc' = [spc EXCEPT ![i] = "deleteRecord"]
    /\ UNCHANGED <<nonSweepVars, isRunning, batch, siteBatch, screenshots,
                   pastDeadline, siteJob, sitePastDeadline, selected, attempted,
                   markFailed, sitesSwept>>

\* await deleteScreenshot(screenshot.bucket, screenshot.storageKey) settles.
DeleteBlobDone(i) ==
    /\ spc[i] = "deleteBlob"
    /\ LET a == Head(batch[i])
       IN  \E ok \in BOOLEAN :
              IF ok
              THEN /\ blobs' = [blobs EXCEPT ![a] = FALSE]
                   /\ spc' = [spc EXCEPT ![i] = "deleteRecord"]
                   /\ UNCHANGED blobFailed
              ELSE /\ blobFailed' = blobFailed \cup {a}
                   /\ spc' = [spc EXCEPT ![i] = "markExpired"]
                   /\ UNCHANGED blobs
    /\ UNCHANGED <<nonSweepVars, isRunning, batch, siteBatch, screenshots,
                   pastDeadline, siteJob, sitePastDeadline, selected, attempted,
                   markFailed, sitesSwept>>

\* await deleteScreenshotRecord(screenshot.id) settles.
DeleteRecordDone(i) ==
    /\ spc[i] = "deleteRecord"
    /\ LET a == Head(batch[i])
       IN  \E ok \in BOOLEAN :
              IF ok
              THEN /\ screenshots' = [screenshots EXCEPT ![a] = "deleted"]
                   /\ NextScreenshot(i, Tail(batch[i]))
              ELSE /\ spc' = [spc EXCEPT ![i] = "markExpired"]
                   /\ UNCHANGED <<screenshots, batch, attempted>>
    /\ UNCHANGED <<nonSweepVars, isRunning, siteBatch, pastDeadline, blobs,
                   siteJob, sitePastDeadline, selected, blobFailed, markFailed,
                   sitesSwept>>

\* Mutant of MarkExpiredDone: the catch block does not update the status.
MarkExpiredSkipped(i) ==
    /\ spc[i] = "markExpired"
    /\ NextScreenshot(i, Tail(batch[i]))
    /\ UNCHANGED <<nonSweepVars, isRunning, siteBatch, storeVars, selected,
                   blobFailed, markFailed, sitesSwept>>

\* catch: await updateScreenshotStatus(screenshot.id, 'expired') settles; a
\* rejection is logged.
MarkExpiredDone(i) ==
    /\ spc[i] = "markExpired"
    /\ LET a == Head(batch[i])
       IN  \E ok \in BOOLEAN :
              IF ok
              THEN /\ screenshots' =
                         [screenshots EXCEPT ![a] =
                             IF @ = "deleted" THEN @ ELSE "expired"]
                   /\ UNCHANGED markFailed
              ELSE /\ markFailed' = markFailed \cup {a}
                   /\ UNCHANGED screenshots
    /\ NextScreenshot(i, Tail(batch[i]))
    /\ UNCHANGED <<nonSweepVars, isRunning, siteBatch, pastDeadline, blobs,
                   siteJob, sitePastDeadline, selected, blobFailed, sitesSwept>>

\* await getExpiredSiteCaptures() settles.
SelectSitesDone(i) ==
    /\ spc[i] = "selectSites"
    /\ \E ok \in BOOLEAN :
          IF ok
          THEN /\ siteBatch' = [siteBatch EXCEPT ![i] = getExpiredSiteCaptures]
               /\ sitesSwept' = "swept"
               /\ spc' = [spc EXCEPT ![i] =
                             IF getExpiredSiteCaptures = <<>> THEN "logs"
                             ELSE "deleteSite"]
               /\ UNCHANGED isRunning
          ELSE /\ JobFailed(i)
               /\ sitesSwept' = "rejected"
               /\ UNCHANGED siteBatch
    /\ UNCHANGED <<nonSweepVars, batch, storeVars, selected, attempted,
                   blobFailed, markFailed>>

\* await deleteSiteCaptureRecord(siteCapture.id) settles; the rows of the
\* job's screenshots go with it (ON DELETE CASCADE). A rejection is logged.
DeleteSiteDone(i) ==
    /\ spc[i] = "deleteSite"
    /\ \E ok \in BOOLEAN :
          IF ok
          THEN /\ siteJob' = "deleted"
               /\ screenshots' =
                     [a \in Artifacts |->
                         IF SiteCaptureIdOf(a) = Head(siteBatch[i])
                         THEN "deleted" ELSE screenshots[a]]
          ELSE UNCHANGED <<siteJob, screenshots>>
    /\ siteBatch' = [siteBatch EXCEPT ![i] = Tail(@)]
    /\ spc' = [spc EXCEPT ![i] = IF Tail(siteBatch[i]) = <<>> THEN "logs"
                                  ELSE "deleteSite"]
    /\ UNCHANGED <<nonSweepVars, isRunning, batch, pastDeadline, blobs,
                   sitePastDeadline, ghostVars>>

\* await cleanupRateLimitLogs() settles; the run ends either way with
\* finally { isRunning = false }.
LogsDone(i) ==
    /\ spc[i] = "logs"
    /\ isRunning' = FALSE
    /\ spc' = [spc EXCEPT ![i] = "done"]
    /\ UNCHANGED <<nonSweepVars, batch, siteBatch, storeVars, ghostVars>>

NextSweep ==
    \/ \E a \in Artifacts : ArtifactExpires(a)
    \/ SiteJobExpires
    \/ SiteJobCompletes
    \/ \E i \in Invocations :
          \/ RunCleanup(i)
          \/ SelectDone(i)
          \/ DeleteBlobDone(i)
          \/ DeleteRecordDone(i)
          \/ MarkExpiredDone(i)
          \/ SelectSitesDone(i)
          \/ DeleteSiteDone(i)
          \/ LogsDone(i)

(***************************************************************************)
(* services/sitemap.ts: discoverSitemapUrl                                 *)
(***************************************************************************)

\* The url field of a request (z.string().url()).
BaseUrls ==
    {"https://a.example", "https://a.example/shop/", "http://b.example:8080/docs?v=2"}

\* new URL(path, baseUrl).toString() for a path that starts with "/": the
\* origin of baseUrl followed by the path.
Origin(base) ==
    CASE base = "https://a.example" -> "https://a.example"
      [] base = "https://a.example/shop/" -> "https://a.example"
      [] base = "http://b.example:8080/docs?v=2" -> "http://b.example:8080"
UrlOf(path, base) == Origin(base) \o path

\* The sitemapUrl field of a request (z.string().url().optional()).
Undefined == "undefined"
ProvidedUrls ==
    {Undefined, "https://a.example/custom.xml", "https://a.example/sitemap.xml"}

\* What findSitemapFromRobots returns when robots.txt was fetched: null when
\* no line matches /^Sitemap:\s*(.+)$/im, else the trimmed capture, which is
\* empty for a directive followed by blanks only.
Null == "null"
RobotsDirectives ==
    {Null, "", "https://a.example/sitemaps/main.xml", "https://a.example/sitemap.xml"}

\* JavaScript truthiness of a string | null | undefined.
Truthy(v) == v \notin {Undefined, Null, ""}

InitDiscover ==
    /\ dpc = "idle"
    /\ baseUrl = Undefined
    /\ providedUrl = Undefined
    /\ fromRobots = Null
    /\ tried = <<>>
    /\ fetches = <<>>
    /\ discovered = Null

\* fetchUrl(url) is called and awaited.
Fetch(url) == fetches' = Append(fetches, <<url, "pending">>)
\* The fetchUrl call awaited settles, and the next one is called.
Settle(how) == [fetches EXCEPT ![Len(fetches)][2] = how]
SettleAndFetch(how, url) == fetches' = Append(Settle(how), <<url, "pending">>)

\* discoverSitemapUrl up to its first await.
DiscoverStart ==
    /\ dpc = "idle"
    /\ \E base \in BaseUrls, provided \in ProvidedUrls :
          /\ baseUrl' = base
          /\ providedUrl' = provided
          /\ IF Truthy(provided)
             THEN /\ dpc' = "provided"
                  /\ Fetch(provided)
             ELSE /\ dpc' = "sitemapXml"
                  /\ Fetch(UrlOf("/sitemap.xml", base))
    /\ UNCHANGED <<nonDiscoverVars, fromRobots, tried, discovered>>

\* A candidate's fetchUrl resolved: the candidate is returned.
Return(url) ==
    /\ discovered' = url
    /\ dpc' = "returned"
    /\ fetches' = Settle("ok")
    /\ UNCHANGED <<tried, fromRobots>>

\* 1. resumes from `await fetchUrl(providedUrl)`.
ProvidedDone ==
    /\ dpc = "provided"
    /\ \/ Return(providedUrl)
       \/ /\ tried' = Append(tried, providedUrl)
          /\ dpc' = "sitemapXml"
          /\ SettleAndFetch("failed", UrlOf("/sitemap.xml", baseUrl))
          /\ UNCHANGED <<discovered, fromRobots>>
    /\ UNCHANGED <<nonDiscoverVars, baseUrl, providedUrl>>

\* Mutant of SitemapXmlDone: /sitemap_index.xml is tried although
\* /sitemap.xml was fetched.
SitemapXmlDoneGoesOn ==
    /\ dpc = "sitemapXml"
    /\ \E how \in {"ok", "failed"} :
          /\ dpc' = "sitemapIndex"
          /\ SettleAndFetch(how, UrlOf("/sitemap_index.xml", baseUrl))
    /\ tried' = Append(tried, UrlOf("/sitemap.xml", baseUrl))
    /\ UNCHANGED <<nonDiscoverVars, baseUrl, providedUrl, discovered, fromRobots>>

\* 2. resumes from `await fetchUrl(sitemapXml)`.
SitemapXmlDone ==
    /\ dpc = "sitemapXml"
    /\ \/ Return(UrlOf("/sitemap.xml", baseUrl))
       \/ /\ tried' = Append(tried, UrlOf("/sitemap.xml", baseUrl))
          /\ dpc' = "sitemapIndex"
          /\ SettleAndFetch("failed", UrlOf("/sitemap_index.xml", baseUrl))
          /\ UNCHANGED <<discovered, fromRobots>>
    /\ UNCHANGED <<nonDiscoverVars, baseUrl, providedUrl>>

\* 3. resumes from `await fetchUrl(sitemapIndex)`; on failure
\* findSitemapFromRobots fetches /robots.txt.
SitemapIndexDone ==
    /\ dpc = "sitemapIndex"
    /\ \/ Return(UrlOf("/sitemap_index.xml", baseUrl))
       \/ /\ tried' = Append(tried, UrlOf("/sitemap_index.xml", baseUrl))
          /\ dpc' = "robots"
          /\ SettleAndFetch("failed", UrlOf("/robots.txt", baseUrl))
          /\ UNCHANGED <<discovered, fromRobots>>
    /\ UNCHANGED <<nonDiscoverVars, baseUrl, providedUrl>>

\* `throw new Error('No sitemap discovered. Tried: ...')`.
Throw(how) ==
    /\ dpc' = "thrown"
    /\ fetches' = Settle(how)
    /\ UNCHANGED <<tried, discovered>>

\* 4. findSitemapFromRobots resumes from `await fetchUrl(robotsUrl)` and
\* returns the directive or null; a directive is fetched.
RobotsDone ==
    /\ dpc = "robots"
    /\ \/ /\ fromRobots' = Null
          /\ Throw("failed")
       \/ \E directive \in RobotsDirectives :
             /\ fromRobots' = directive
             /\ IF Truthy(directive)
                THEN /\ dpc' = "fromRobots"
                     /\ SettleAndFetch("ok", directive)
                     /\ UNCHANGED <<tried, discovered>>
                ELSE Throw("ok")
    /\ UNCHANGED <<nonDiscoverVars, baseUrl, providedUrl>>

\* resumes from `await fetchUrl(fromRobots)`.
FromRobotsDone ==
    /\ dpc = "fromRobots"
    /\ \/ Return(fromRobots)
       \/ /\ tried' = Append(tried, fromRobots)
          /\ dpc' = "thrown"
          /\ fetches' = Settle("failed")
          /\ UNCHANGED <<discovered, fromRobots>>
    /\ UNCHANGED <<nonDiscoverVars, baseUrl, providedUrl>>

NextDiscover ==
    \/ DiscoverStart
    \/ ProvidedDone
    \/ SitemapXmlDone
    \/ SitemapIndexDone
    \/ RobotsDone
    \/ FromRobotsDone

(***************************************************************************)
(* index.ts: graceful shutdown.  main() registers `shutdown` for SIGTERM   *)
(* and for SIGINT, so a second signal starts a second call while the first *)
(* is suspended.  The session pool is seen here through the two values     *)
(* closeBrowser reads: the count of active pages and the browser handle.   *)
(***************************************************************************)

MaxSignals == 2
Signals == 1..MaxSignals

InitShutdown ==
    /\ signals = 0
    /\ sdpc = [i \in Signals |-> "idle"]
    /\ slept = [i \in Signals |-> 0]
    /\ listening = TRUE
    /\ cleanupInterval = "set"
    /\ leases = 0
    /\ engine = "open"
    /\ dbPool = "open"
    /\ steps = <<>>

\* process.exit() has not been called.
ProcessRuns == \A i \in Signals : sdpc[i] # "exited"

\* acquirePage takes a slot: activePages++.
PageAcquired ==
    /\ ProcessRuns
    /\ leases < MaxConcurrentPages
    /\ leases' = leases + 1
    /\ UNCHANGED <<nonShutdownVars, signals, sdpc, slept, listening, cleanupInterval,
                   engine, dbPool, steps>>

\* releasePage gives a slot back: activePages--.
PageReleased ==
    /\ ProcessRuns
    /\ leases > 0
    /\ leases' = leases - 1
    /\ UNCHANGED <<nonShutdownVars, signals, sdpc, slept, listening, cleanupInterval,
                   engine, dbPool, steps>>

\* closeBrowser after its wait loop: awaits browser.close() if there is a
\* browser, otherwise returns.
AfterWaitLoop == IF engine = "open" THEN "browserClose" ELSE "returned"

\* Mutant of Shutdown: closePool is called before closeBrowser.
ShutdownClosesPoolFirst(i) ==
    /\ ProcessRuns
    /\ i = signals + 1
    /\ signals' = i
    /\ listening' = FALSE
    /\ cleanupInterval' = "null"
    /\ dbPool' = "ending"
    /\ steps' = steps \o <<"server.close", "stopCleanupJob", "closePool", "closeBrowser">>
    /\ sdpc' = [sdpc EXCEPT ![i] = IF leases > 0 THEN "sleep" ELSE AfterWaitLoop]
    /\ UNCHANGED <<nonShutdownVars, slept, leases, engine>>

\* A signal arrives and shutdown runs up to the first await: server.close(),
\* stopCleanupJob(), then closeBrowser() up to its first sleep or to
\* browser.close().
Shutdown(i) ==
    /\ ProcessRuns
    /\ i = signals + 1
    /\ signals' = i
    /\ listening' = FALSE
    /\ cleanupInterval' = "null"
    /\ steps' = steps \o <<"server.close", "stopCleanupJob", "closeBrowser">>
    /\ sdpc' = [sdpc EXCEPT ![i] = IF leases > 0 THEN "sleep" ELSE AfterWaitLoop]
    /\ UNCHANGED <<nonShutdownVars, slept, leases, engine, dbPool>>

\* closeBrowser of call i resumes from a sleep of its wait loop.
ShutdownSlept(i) ==
    /\ ProcessRuns
    /\ sdpc[i] = "sleep"
    /\ slept' = [slept EXCEPT ![i] = @ + 1]
    /\ sdpc' = [sdpc EXCEPT ![i] =
                  IF leases > 0 /\ slept[i] + 1 < MaxWaitSleeps
                  THEN "sleep" ELSE AfterWaitLoop]
    /\ UNCHANGED <<nonShutdownVars, signals, listening, cleanupInterval, leases,
                   engine, dbPool, steps>>

\* closeBrowser of call i resumes from `await browser.close()` (an error is
\* logged), sets browser = null and returns.
BrowserClosed(i) ==
    /\ ProcessRuns
    /\ sdpc[i] = "browserClose"
    /\ engine' = "null"
    /\ sdpc' = [sdpc EXCEPT ![i] = "returned"]
    /\ UNCHANGED <<nonShutdownVars, signals, slept, listening, cleanupInterval,
                   leases, dbPool, steps>>

\* shutdown resumes from `await closeBrowser()` and calls closePool: pool.end()
\* if there is a pool.  A second pool.end() on the same pool throws, the
\* rejection of shutdown is unhandled and the handler of 'unhandledRejection'
\* calls process.exit(1).
ClosePool(i) ==
    /\ ProcessRuns
    /\ sdpc[i] = "returned"
    /\ steps' = steps \o <<"closeBrowser returned", "closePool">>
    /\ IF dbPool = "open"
       THEN /\ dbPool' = "ending"
            /\ sdpc' = [sdpc EXCEPT ![i] = "poolEnd"]
       ELSE /\ sdpc' = [sdpc EXCEPT ![i] = "exited"]
            /\ UNCHANGED dbPool
    /\ UNCHANGED <<nonShutdownVars, signals, slept, listening, cleanupInterval,
                   leases, engine>>

\* closePool resumes from `await pool.end()`: pool = null; shutdown logs
\* 'Shutdown complete' and calls process.exit(0).
PoolEnded(i) ==
    /\ ProcessRuns
    /\ sdpc[i] = "poolEnd"
    /\ dbPool' = "null"
    /\ sdpc' = [sdpc EXCEPT ![i] = "exited"]
    /\ UNCHANGED <<nonShutdownVars, signals, slept, listening, cleanupInterval,
                   leases, engine, steps>>

NextShutdown ==
    \/ PageAcquired
    \/ PageReleased
    \/ \E i \in Signals : Shutdown(i)
    \/ \E i \in Signals : ShutdownSlept(i)
    \/ \E i \in Signals : BrowserClosed(i)
    \/ \E i \in Signals : ClosePool(i)
    \/ \E i \in Signals : PoolEnded(i)

(***************************************************************************)
(* services/browser.ts: the queue of leases.  The pool is taken up here    *)
(* with more calls at a higher ceiling than under Spec, and only with what *)
(* decides the order in which queued leases are served: the counter, the   *)
(* queue and the awaits of acquirePage and of the hand-off of releasePage. *)
(***************************************************************************)

\* acquirePage calls (leases), numbered in the order of the calls, and
\* config.maxConcurrentPages.
NumLeases == 4
QueueCeiling == 2
Leases == 1..NumLeases

\* The fields of leasing: lpc[l], where the acquirePage call of lease l is or
\* how it ended; activePages as acquirePage and releasePage read it;
\* pageQueue, by lease; isShuttingDown; and the leases in the order of their
\* pageQueue.push, of their pageQueue.shift and of their
\* next.resolve(newPage).
lpc == leasing.lpc
slots == leasing.slots
waitingLeases == leasing.waiting
stopping == leasing.stopping
enqueued == leasing.enqueued
shifted == leasing.shifted
grants == leasing.grants

InitQueue ==
    leasing = [lpc |-> [l \in Leases |-> "idle"], slots |-> 0, waiting |-> <<>>,
               stopping |-> FALSE, enqueued |-> <<>>, shifted |-> <<>>,
               grants |-> <<>>]

\* captureScreenshot calls acquirePage, which takes a slot and awaits
\* initBrowser, or pushes a lease on the queue; when shutting down
\* captureScreenshot throws before that.
LeaseAcquire(l) ==
    /\ lpc[l] = "idle"
    /\ \A k \in Leases : k < l => lpc[k] # "idle"
    /\ leasing' =
          IF stopping
          THEN [leasing EXCEPT !.lpc[l] = "refused"]
          ELSE IF slots < QueueCeiling
          THEN [leasing EXCEPT !.slots = @ + 1, !.lpc[l] = "opening"]
          ELSE [leasing EXCEPT !.waiting = Append(@, l),
                               !.enqueued = Append(@, l),
                               !.lpc[l] = "queued"]
    /\ UNCHANGED nonQueueVars

\* acquirePage returns the page, or initBrowser, newPage or setUserAgent
\* threw (the slot is not given back).
LeaseOpened(l) ==
    /\ lpc[l] = "opening"
    /\ \E ok \in BOOLEAN :
          leasing' = [leasing EXCEPT !.lpc[l] = IF ok THEN "holding" ELSE "failed"]
    /\ UNCHANGED nonQueueVars

\* Mutant of LeaseReleased: the lease pushed last is taken off the queue
\* (pop in place of shift).
LeaseReleasedPops(l) ==
    /\ lpc[l] = "holding"
    /\ leasing' =
          IF Len(waitingLeases) > 0 /\ ~stopping
          THEN LET last == waitingLeases[Len(waitingLeases)]
               IN  [leasing EXCEPT
                       !.slots = @ - 1,
                       !.waiting = SubSeq(@, 1, Len(@) - 1),
                       !.shifted = Append(@, last),
                       !.lpc = [@ EXCEPT ![l] = "released", ![last] = "handoff"]]
          ELSE [leasing EXCEPT !.slots = @ - 1, !.lpc[l] = "released"]
    /\ UNCHANGED nonQueueVars

\* The holder's capture is over and its releasePage resumes from
\* `await page.close()`: activePages--, and when leases are queued and
\* shutdown has not begun the head is shifted and initBrowser awaited for it.
LeaseReleased(l) ==
    /\ lpc[l] = "holding"
    /\ leasing' =
          IF Len(waitingLeases) > 0 /\ ~stopping
          THEN [leasing EXCEPT
                   !.slots = @ - 1,
                   !.waiting = Tail(@),
                   !.shifted = Append(@, Head(waitingLeases)),
                   !.lpc = [@ EXCEPT ![l] = "released",
                                     ![Head(waitingLeases)] = "handoff"]]
          ELSE [leasing EXCEPT !.slots = @ - 1, !.lpc[l] = "released"]
    /\ UNCHANGED nonQueueVars

\* The hand-off for lease l resumes from `await initBrowser()`: activePages++
\* and newPage is awaited, or the launch threw and next.reject(error).
HandoffInit(l) ==
    /\ lpc[l] = "handoff"
    /\ \/ leasing' = [leasing EXCEPT !.slots = @ + 1, !.lpc[l] = "handoffOpening"]
       \/ leasing' = [leasing EXCEPT !.lpc[l] = "failed"]
    /\ UNCHANGED nonQueueVars

\* The hand-off for lease l resumes from newPage and setUserAgent:
\* next.resolve(newPage), or one of them threw and next.reject(error).
HandoffOpened(l) ==
    /\ lpc[l] = "handoffOpening"
    /\ \/ leasing' = [leasing EXCEPT !.lpc[l] = "holding", !.grants = Append(@, l)]
       \/ leasing' = [leasing EXCEPT !.lpc[l] = "failed"]
    /\ UNCHANGED nonQueueVars

\* closeBrowser sets isShuttingDown and rejects every queued lease.
QueueClosed ==
    /\ ~stopping
    /\ leasing' = [leasing EXCEPT
                      !.stopping = TRUE,
                      !.lpc = [l \in Leases |->
                                 IF lpc[l] = "queued" THEN "rejected" ELSE lpc[l]],
                      !.waiting = <<>>]
    /\ UNCHANGED nonQueueVars

NextQueue ==
    \/ \E l \in Leases : LeaseAcquire(l)
    \/ \E l \in Leases : LeaseOpened(l)
    \/ \E l \in Leases : LeaseReleased(l)
    \/ \E l \in Leases : HandoffInit(l)
    \/ \E l \in Leases : HandoffOpened(l)
    \/ QueueClosed

(***************************************************************************)
(* services/browser.ts: the body of captureScreenshot between acquirePage  *)
(* and releasePage.  Every awaited page operation resolves or rejects (the *)
(* navigation also by its timeout); the two timers only resolve.           *)
(***************************************************************************)

NumCaptures == 2
Captures == 1..NumCaptures

\* waitTime: 0 or a positive number of milliseconds.
WaitTimes == {0, 1000}

\* The fields of captures[c]: fullPage and waitTime of the call, the await at
\* which it is suspended, the page operations it has invoked, in order, and
\* its result: "captured" once the buffer is returned, "failed" once a step
\* threw.
capArgs == [c \in Captures |-> captures[c].args]
capPc == [c \in Captures |-> captures[c].pc]
trail == [c \in Captures |-> captures[c].trail]
capResult == [c \in Captures |-> captures[c].result]

InitCapture ==
    captures = [c \in Captures |->
                  [args |-> [fullPage |-> FALSE, waitTime |-> 0], pc |-> "idle",
                   trail |-> <<>>, result |-> "pending"]]

\* The awaits that are timers (setTimeout in a Promise) and cannot reject.
Timers == {"lazyWait", "wait"}

\* What follows the scroll block: the caller's wait when waitTime > 0, the
\* snapshot otherwise.
AfterScroll(args) == IF args.waitTime > 0 THEN "wait" ELSE "screenshot"

\* Mutant of StepAfter: the style is injected before the navigation.
StepAfterStyleFirst(step, args) ==
    CASE step = "setViewport" -> "emulateMediaFeatures"
      [] step = "emulateMediaFeatures" -> "addStyleTag"
      [] step = "addStyleTag" -> "goto"
      [] step = "goto" -> IF args.fullPage THEN "evaluate" ELSE AfterScroll(args)
      [] step = "evaluate" -> "lazyWait"
      [] step = "lazyWait" -> AfterScroll(args)
      [] step = "wait" -> "screenshot"
      [] step = "screenshot" -> "return"

\* The statement the try block reaches when the await of `step` resolves.
StepAfter(step, args) ==
    CASE step = "setViewport" -> "emulateMediaFeatures"
      [] step = "emulateMediaFeatures" -> "goto"
      [] step = "goto" -> "addStyleTag"
      [] step = "addStyleTag" -> IF args.fullPage THEN "evaluate" ELSE AfterScroll(args)
      [] step = "evaluate" -> "lazyWait"
      [] step = "lazyWait" -> AfterScroll(args)
      [] step = "wait" -> "screenshot"
      [] step = "screenshot" -> "return"

\* acquirePage has returned the page: the try block is entered and
\* page.setViewport awaited.
CaptureBegins(c) ==
    /\ capPc[c] = "idle"
    /\ \E fullPage \in BOOLEAN, waitTime \in WaitTimes :
          captures' = [captures EXCEPT ![c] =
                         [args |-> [fullPage |-> fullPage, waitTime |-> waitTime],
                          pc |-> "setViewport",
                          trail |-> <<"setViewport">>,
                          result |-> "pending"]]
    /\ UNCHANGED nonCaptureVars

\* The awaited operation resolves: the next one is invoked, or the buffer is
\* returned and the finally block awaits releasePage.
CaptureStepResolved(c) ==
    /\ capPc[c] \notin {"idle", "releasePage", "done"}
    /\ LET reached == StepAfter(capPc[c], capArgs[c])
       IN  captures' = [captures EXCEPT ![c] =
                          IF reached = "return"
                          THEN [@ EXCEPT !.result = "captured", !.pc = "releasePage"]
                          ELSE [@ EXCEPT !.pc = reached,
                                         !.trail = Append(@, reached)]]
    /\ UNCHANGED nonCaptureVars

\* The awaited operation rejects: the error leaves the try block through the
\* finally block, which awaits releasePage.
CaptureStepRejected(c) ==
    /\ capPc[c] \notin {"idle", "releasePage", "done"} \cup Timers
    /\ captures' = [captures EXCEPT ![c] =
                      [@ EXCEPT !.result = "failed", !.pc = "releasePage"]]
    /\ UNCHANGED nonCaptureVars

\* releasePage returns (it catches what page.close and the hand-off throw)
\* and captureScreenshot settles.
CaptureSettled(c) ==
    /\ capPc[c] = "releasePage"
    /\ captures' = [captures EXCEPT ![c] = [@ EXCEPT !.pc = "done"]]
    /\ UNCHANGED nonCaptureVars

NextCapture ==
    \/ \E c \in Captures : CaptureBegins(c)
    \/ \E c \in Captures : CaptureStepResolved(c)
    \/ \E c \in Captures : CaptureStepRejected(c)
    \/ \E c \in Captures : CaptureSettled(c)

(***************************************************************************)
(* services/sitemap.ts: collectAllUrls, call by call.                      *)
(*                                                                         *)
(* The sitemap URLs of a site are 1..NumSitemaps.  What each serves is an  *)
(* input: a document that cannot be fetched, a leaf sitemap with one page  *)
(* URL, or a sitemap index listing any set of the sitemap URLs, itself     *)
(* included, in ascending order.  A frame is one collectAllUrls call:      *)
(* its arguments, its result so far and the statement it is suspended at.  *)
(***************************************************************************)

NumSitemaps == 2
SitemapUrls == 1..NumSitemaps

GraphDocuments ==
    {[kind |-> "fail", nested |-> {}], [kind |-> "leaf", nested |-> {}]}
    \cup {[kind |-> "index", nested |-> S] : S \in SUBSET SitemapUrls}

\* maxPages of the top-level call: one page, or the default of 100.
CrawlBudgets == {1, 100}

\* parseSitemapIndex: the <sitemap><loc> entries of an index, in order.
NestedUrls(doc) == SelectSeq([n \in SitemapUrls |-> n], LAMBDA n : n \in doc.nested)

Frame(sitemapUrl, max, depth) ==
    [sitemapUrl |-> sitemapUrl, maxPages |-> max, depth |-> depth,
     at |-> "entry", nestedUrls |-> <<>>, i |-> 1, urls |-> 0, errors |-> 0]

\* The fields of crawl: "idle", "crawling" or "done"; graph[s], the document
\* served for sitemap URL s; maxPages of the top-level call; the
\* collectAllUrls calls in progress, outermost first; the number of fetchUrl
\* calls made; the lengths of urls and errors of the result.
kpc == crawl.pc
graph == crawl.graph
crawlMax == crawl.maxPages
frames == crawl.frames
fetchCount == crawl.fetchCount
crawlResult == crawl.result

Top == frames[Len(frames)]
SetTop(f) == [frames EXCEPT ![Len(frames)] = f]

InitCrawl ==
    crawl = [pc |-> "idle",
             graph |-> [s \in SitemapUrls |-> [kind |-> "fail", nested |-> {}]],
             maxPages |-> 0,
             frames |-> <<>>,
             fetchCount |-> 0,
             result |-> [urls |-> 0, errors |-> 0]]

\* collectAllUrls(sitemapUrl, maxPages) is called on the root sitemap of some
\* site.
CrawlCalled ==
    /\ kpc = "idle"
    /\ \E g \in [SitemapUrls -> GraphDocuments], m \in CrawlBudgets :
          crawl' = [crawl EXCEPT !.pc = "crawling", !.graph = g, !.maxPages = m,
                                 !.frames = <<Frame(1, m, 0)>>]
    /\ UNCHANGED nonCrawlVars

\* The innermost call runs from its entry: it returns the depth error, or
\* awaits fetchUrl(sitemapUrl).
CrawlEntered ==
    /\ kpc = "crawling" /\ Top.at = "entry"
    /\ crawl' = IF DepthExceeded(Top.depth)
                THEN [crawl EXCEPT !.frames =
                         SetTop([Top EXCEPT !.at = "return", !.errors = 1])]
                ELSE [crawl EXCEPT !.frames = SetTop([Top EXCEPT !.at = "fetchUrl"]),
                                   !.fetchCount = @ + 1]
    /\ UNCHANGED nonCrawlVars

\* fetchUrl settles: it rejected and the catch block records the error; it
\* gave a sitemap index and the loop over its entries begins; or it gave a
\* leaf sitemap, whose URLs are sliced to maxPages.
CrawlFetched ==
    /\ kpc = "crawling" /\ Top.at = "fetchUrl"
    /\ LET doc == graph[Top.sitemapUrl]
       IN  crawl' = [crawl EXCEPT !.frames = SetTop(
              CASE doc.kind = "fail" -> [Top EXCEPT !.at = "return", !.errors = 1]
                [] doc.kind = "index" ->
                      [Top EXCEPT !.at = "loop", !.nestedUrls = NestedUrls(doc)]
                [] doc.kind = "leaf" ->
                      [Top EXCEPT !.at = "return",
                                  !.urls = Len(Slice(<<1>>, Top.maxPages))])]
    /\ UNCHANGED nonCrawlVars

\* The head of `for (const nestedUrl of nestedUrls)`: the loop is over or
\* the budget is used up, or collectAllUrls is called on the next entry.
CrawlLooped ==
    /\ kpc = "crawling" /\ Top.at = "loop"
    /\ crawl' = [crawl EXCEPT !.frames =
                    IF Top.i > Len(Top.nestedUrls) \/ Top.urls >= Top.maxPages
                    THEN SetTop([Top EXCEPT !.at = "return"])
                    ELSE Append(SetTop([Top EXCEPT !.at = "nested"]),
                                Frame(Top.nestedUrls[Top.i],
                                      Top.maxPages - Top.urls, Top.depth + 1))]
    /\ UNCHANGED nonCrawlVars

\* The innermost call returns its result: to the call awaiting it, which
\* pushes the nested urls and errors and goes on with the next entry, or to
\* the caller of the top-level call.
CrawlReturned ==
    /\ kpc = "crawling" /\ Top.at = "return"
    /\ crawl' =
          IF Len(frames) = 1
          THEN [crawl EXCEPT !.result = [urls |-> Top.urls, errors |-> Top.errors],
                             !.frames = <<>>,
                             !.pc = "done"]
          ELSE LET caller == frames[Len(frames) - 1]
               IN  [crawl EXCEPT !.frames =
                       [SubSeq(frames, 1, Len(frames) - 1)
                          EXCEPT ![Len(frames) - 1] =
                             [caller EXCEPT !.at = "loop",
                                            !.i = caller.i + 1,
                                            !.urls = caller.urls + Top.urls,
                                            !.errors = caller.errors + Top.errors]]]
    /\ UNCHANGED nonCrawlVars

NextCrawl ==
    \/ CrawlCalled
    \/ CrawlEntered
    \/ CrawlFetched
    \/ CrawlLooped
    \/ CrawlReturned

(***************************************************************************)
(* routes/site.ts: the POST /site handler from the validation of the body  *)
(* to setImmediate.  The sitemap is discovered or not, and collectAllUrls  *)
(* runs on any site of Worlds with the maxPages of the request.            *)
(***************************************************************************)

\* types/index.ts: maxPages: z.number().min(1).max(500)
MaxPagesLimit == 500

\* parseResult.data: maxPages, and whether sitemapUrl was given.
NoBody == [maxPages |-> 0, sitemapUrl |-> FALSE]
NoJob == [exists |-> FALSE, totalPages |-> 0]
NoReply == [status |-> 0, error |-> "none"]
NotCollected == [collected |-> FALSE, urls |-> 0, errors |-> 0]

\* SiteCaptureRequestSchema.safeParse(req.body).success, as far as maxPages
\* decides it.
ValidBody(maxPagesField) == maxPagesField >= 1 /\ maxPagesField <= MaxPagesLimit

\* The fields of submission: where the handler is suspended, or "responded";
\* parseResult.data of the request body; how discoverSitemapUrl settled
\* ("pending", "found" or "notFound"); the lengths of urls and errors of the
\* collectAllUrls result, once it returned; the site_captures row the handler
\* inserted, if any; the response sent; and the background processing:
\* "none", "scheduled" (setImmediate called) or "running".
hpc == submission.hpc
parsed == submission.parsed
sitemapFound == submission.sitemapFound
sitemapResult == submission.sitemapResult
jobRow == submission.jobRow
reply == submission.reply
background == submission.background

InitSubmit ==
    submission = [hpc |-> "idle", parsed |-> NoBody, sitemapFound |-> "pending",
                  sitemapResult |-> NotCollected, jobRow |-> NoJob,
                  reply |-> NoReply, background |-> "none"]

\* res.status(status).json({error, ...}); return
Respond(sub, status, error) ==
    [sub EXCEPT !.reply = [status |-> status, error |-> error],
                !.hpc = "responded"]

\* A request arrives: a body that fails validation is answered 400, otherwise
\* discoverSitemapUrl is awaited.
PostSite ==
    /\ hpc = "idle"
    /\ \E m \in 0..MaxBudget :
          IF ValidBody(m)
          THEN \E given \in BOOLEAN :
                  submission' = [submission EXCEPT
                                    !.parsed = [maxPages |-> m, sitemapUrl |-> given],
                                    !.hpc = "discoverSitemapUrl"]
          ELSE submission' = Respond(submission, 400, "Validation Error")
    /\ UNCHANGED nonSubmitVars

\* discoverSitemapUrl settles: collectAllUrls is awaited, or the inner catch
\* answers 400.
SitemapDiscovered ==
    /\ hpc = "discoverSitemapUrl"
    /\ \/ submission' = [submission EXCEPT !.sitemapFound = "found",
                                           !.hpc = "collectAllUrls"]
       \/ submission' = Respond([submission EXCEPT !.sitemapFound = "notFound"],
                                400, "Sitemap Not Found")
    /\ UNCHANGED nonSubmitVars

\* The collectAllUrls result as the handler uses it.
Collected(res) ==
    [collected |-> TRUE, urls |-> Len(res.urls), errors |-> Len(res.errors)]

\* Mutant of UrlsCollected: the test for an empty list is missing.
UrlsCollectedUnchecked ==
    /\ hpc = "collectAllUrls"
    /\ \E w \in Worlds :
          LET res == collectAllUrls(w, RootSitemap, parsed.maxPages, 0)
          IN  submission' = [submission EXCEPT !.sitemapResult = Collected(res),
                                               !.hpc = "createSiteCapture"]
    /\ UNCHANGED nonSubmitVars

\* collectAllUrls(sitemapUrl, maxPages) returns: an empty list is answered
\* 400; otherwise the URLs are sorted and createSiteCapture is awaited with
\* their number, or sortUrlsByPath throws on a loc that is no URL and the
\* outer catch answers 500.
UrlsCollected ==
    /\ hpc = "collectAllUrls"
    /\ \E w \in Worlds :
          LET res == collectAllUrls(w, RootSitemap, parsed.maxPages, 0)
              sub == [submission EXCEPT !.sitemapResult = Collected(res)]
          IN  IF Len(res.urls) = 0
              THEN submission' = Respond(sub, 400, "Empty Sitemap")
              ELSE \/ submission' = [sub EXCEPT !.hpc = "createSiteCapture"]
                   \/ submission' = Respond(sub, 500, "Internal Server Error")
    /\ UNCHANGED nonSubmitVars

\* createSiteCapture settles: the row exists with totalPages =
\* sortedUrls.length, 202 is sent and processSiteCapture is scheduled with
\* setImmediate; or the INSERT rejected and the outer catch answers 500.
JobCreated ==
    /\ hpc = "createSiteCapture"
    /\ \/ submission' =
             Respond([submission EXCEPT
                         !.jobRow = [exists |-> TRUE, totalPages |-> sitemapResult.urls],
                         !.background = "scheduled"],
                     202, "none")
       \/ submission' = Respond(submission, 500, "Internal Server Error")
    /\ UNCHANGED nonSubmitVars

\* The setImmediate callback runs: processSiteCapture begins.
BackgroundStarts ==
    /\ background = "scheduled"
    /\ submission' = [submission EXCEPT !.background = "running"]
    /\ UNCHANGED nonSubmitVars

NextSubmit ==
    \/ PostSite
    \/ SitemapDiscovered
    \/ UrlsCollected
    \/ JobCreated
    \/ BackgroundStarts

(***************************************************************************)
(* The download routes: the two GET handlers on one artifact, while its    *)
(* deadline passes and the sweeper and DELETE /screenshot/:id mark it      *)
(* expired or remove its object and its row.                               *)
(***************************************************************************)

\* GET requests in one behaviour
MaxGets == 2
Gets == 1..MaxGets

\* The fields of artifact: the status of its row in screenshots, or "none";
\* whether expires_at of the row is in the past; whether its object is in
\* the bucket.
shot == artifact.status
shotPast == artifact.past
shotBlob == artifact.blob

\* The fields of gets[r]: where the handler is suspended; "metadata"
\* (GET /:id) or "download" (GET /:id/download); what getScreenshot gave and
\* how the expiry test went; the status of the response, 0 while none was
\* sent.
gpc == [r \in Gets |-> gets[r].pc]
gkind == [r \in Gets |-> gets[r].kind]
gread == [r \in Gets |-> gets[r].read]
gstatus == [r \in Gets |-> gets[r].status]

InitServe ==
    /\ artifact = [status |-> "completed", past |-> FALSE, blob |-> TRUE]
    /\ gets = [r \in Gets |->
                 [pc |-> "idle", kind |-> "metadata", read |-> "unread", status |-> 0]]

\* Mutant of IsExpired: only the status is tested.
IsExpiredByStatus(status, past) == status = "expired"

\* screenshot.status === 'expired' || screenshot.expiresAt < new Date()
IsExpired(status, past) == status = "expired" \/ past

\* Time passes expires_at.
DeadlinePasses ==
    /\ ~shotPast
    /\ artifact' = [artifact EXCEPT !.past = TRUE]
    /\ UNCHANGED <<nonServeVars, gets>>

\* updateScreenshotStatus(id, 'expired'): DELETE /screenshot/:id without
\* immediate, or the sweeper after a failed deletion.
StatusExpired ==
    /\ shot = "completed"
    /\ artifact' = [artifact EXCEPT !.status = "expired"]
    /\ UNCHANGED <<nonServeVars, gets>>

\* deleteScreenshot(bucket, storageKey): the sweeper, or DELETE with
\* immediate=true.
ObjectDeleted ==
    /\ shot # "none" /\ shotBlob
    /\ artifact' = [artifact EXCEPT !.blob = FALSE]
    /\ UNCHANGED <<nonServeVars, gets>>

\* deleteScreenshotRecord(id): the sweeper after the object, or DELETE with
\* immediate=true whether or not the object could be deleted.
RowDeleted ==
    /\ shot # "none"
    /\ artifact' = [artifact EXCEPT !.status = "none"]
    /\ UNCHANGED <<nonServeVars, gets>>

\* res.status(status).json(...); return
Answer(get, status) == [get EXCEPT !.status = status, !.pc = "responded"]

\* A GET request for the artifact arrives at one of the two routes: an id
\* that is no UUID is answered 400, otherwise getScreenshot is awaited.
GetArrives(r) ==
    /\ gpc[r] = "idle"
    /\ \A q \in Gets : q < r => gpc[q] # "idle"
    /\ \E kind \in {"metadata", "download"}, uuid \in BOOLEAN :
          gets' = [gets EXCEPT ![r] =
                     IF uuid
                     THEN [@ EXCEPT !.kind = kind, !.pc = "getScreenshot"]
                     ELSE Answer([@ EXCEPT !.kind = kind], 400)]
    /\ UNCHANGED <<nonServeVars, artifact>>

\* getScreenshot settles: a rejection is answered 500, no row 404, an expired
\* row 410; the metadata route answers 410 for a failed capture and the
\* metadata otherwise; the download route sends GetObjectCommand.
ScreenshotRead(r) ==
    /\ gpc[r] = "getScreenshot"
    /\ \/ gets' = [gets EXCEPT ![r] = Answer([@ EXCEPT !.read = "rejected"], 500)]
       \/ gets' = [gets EXCEPT ![r] =
                     IF shot = "none"
                     THEN Answer([@ EXCEPT !.read = "missing"], 404)
                     ELSE IF IsExpired(shot, shotPast)
                     THEN Answer([@ EXCEPT !.read = "gone"], 410)
                     ELSE IF gkind[r] = "metadata"
                     THEN Answer([@ EXCEPT !.read = "live"],
                                 IF shot = "failed" THEN 410 ELSE 200)
                     ELSE [@ EXCEPT !.read = "live", !.pc = "send"]]
    /\ UNCHANGED <<nonServeVars, artifact>>

\* client.send(command) settles: it rejects when the object is gone (or the
\* store fails) and 500 is answered; otherwise markDownloaded is awaited.
ObjectFetched(r) ==
    /\ gpc[r] = "send"
    /\ \/ gets' = [gets EXCEPT ![r] = Answer(@, 500)]
       \/ /\ shotBlob
          /\ gets' = [gets EXCEPT ![r] = [@ EXCEPT !.pc = "markDownloaded"]]
    /\ UNCHANGED <<nonServeVars, artifact>>

\* markDownloaded settles: the image is streamed, or 500 is answered.
MarkedDownloaded(r) ==
    /\ gpc[r] = "markDownloaded"
    /\ \/ gets' = [gets EXCEPT ![r] = Answer(@, 200)]
       \/ gets' = [gets EXCEPT ![r] = Answer(@, 500)]
    /\ UNCHANGED <<nonServeVars, artifact>>

NextServe ==
    \/ DeadlinePasses
    \/ StatusExpired
    \/ ObjectDeleted
    \/ RowDeleted
    \/ \E r \in Gets : GetArrives(r)
    \/ \E r \in Gets : ScreenshotRead(r)
    \/ \E r \in Gets : ObjectFetched(r)
    \/ \E r \in Gets : MarkedDownloaded(r)

(***************************************************************************)
(* Specifications                                                          *)
(***************************************************************************)

Init ==
    /\ InitPool /\ InitSite /\ InitSitemap /\ InitRate /\ InitSweep
    /\ InitDiscover /\ InitShutdown /\ InitQueue /\ InitCapture /\ InitCrawl /\ InitSubmit /\ InitServe

Next == NextPool

\* The render session pool.
Spec == Init /\ [][Next]_vars

\* One site crawl job.
SiteSpec == Init /\ [][NextSite]_vars

\* One collectAllUrls call.
SitemapSpec == Init /\ [][NextSitemap]_vars

\* The rate limiter.
RateSpec == Init /\ [][NextRate]_vars

\* The expiry sweeper.
SweepSpec == Init /\ [][NextSweep]_vars

\* One discoverSitemapUrl call.
DiscoverSpec == Init /\ [][NextDiscover]_vars

\* The shutdown handler.
ShutdownSpec == Init /\ [][NextShutdown]_vars

\* The queue of leases.
QueueSpec == Init /\ [][NextQueue]_vars

\* The steps of one capture.
CaptureSpec == Init /\ [][NextCapture]_vars

\* collectAllUrls call by call.
CrawlSpec == Init /\ [][NextCrawl]_vars

\* CrawlSpec in which a call that can take a step takes it: every fetchUrl
\* settles, and a call that is not awaiting anything runs on.
CrawlFairSpec == CrawlSpec /\ WF_vars(NextCrawl)

\* The POST /site handler.
SubmitSpec == Init /\ [][NextSubmit]_vars

\* The two GET handlers on an artifact.
ServeSpec == Init /\ [][NextServe]_vars

(***************************************************************************)
(* Claims about the render session pool (checked under Spec).              *)
(***************************************************************************)

\* C1: in every interleaving of acquirePage and releasePage, await points
\* included, neither the activePages counter nor the number of concurrently
\* leased sessions exceeds config.maxConcurrentPages.
C1_PoolWithinCeiling ==
    /\ activePages <= MaxConcurrentPages
    /\ LeasedSessions <= MaxConcurrentPages

\* C2: once releasePage has dequeued the head of the queue, no acquirePage
\* call that started after that release is served (holds a page) while the
\* dequeued lease is still waiting for its session.
C2_QueuedLeaseServedFirst ==
    \A c \in Callers :
        pc[c] = "holding" => startedAfter[c] \cap PendingHandoffs = {}

(***************************************************************************)
(* Claims about the site crawl job (checked under SiteSpec).               *)
(***************************************************************************)

NumSucceeded == Cardinality({u \in Urls : outcome[u] = "ok"})
NumFailed == Cardinality({u \in Urls : outcome[u] = "fail"})
JobUrls == 1..totalUrls
AllWorkersReturned == \A w \in Workers : wpc[w] = "returned"

\* C3, for a job that reached completed: the row's capturedPages +
\* failedPages equals its totalPages.
C3_CompletedCountsExact ==
    siteCapture.status = "completed" =>
        siteCapture.capturedPages + siteCapture.failedPages = siteCapture.totalPages

C5_CountsWithinTotal ==
    /\ capturedCount + failedCount <= totalUrls
    /\ siteCapture.capturedPages + siteCapture.failedPages <= siteCapture.totalPages

\* The row of a job of several URLs shows all of them counted, some captured
\* and some failed.
C5_Witness ==
    /\ siteCapture.totalPages >= 2
    /\ siteCapture.capturedPages >= 1
    /\ siteCapture.failedPages >= 1
    /\ siteCapture.capturedPages + siteCapture.failedPages = siteCapture.totalPages

C7_StatusForwardOnly ==
    [][/\ siteCapture.status \in Terminal =>
             /\ siteCapture'.status = siteCapture.status
             /\ statusWrites' = statusWrites
       /\ siteCapture.status = "processing" =>
             siteCapture'.status \in {"processing"} \cup Terminal
       /\ siteCapture.status = "none" =>
             siteCapture'.status \in {"none", "processing"}]_vars

\* The job was forced to failed while a worker is still processing a URL.
C7_Witness ==
    /\ siteCapture.status = "failed"
    /\ statusWrites = 1
    /\ \E w \in Workers : wpc[w] = "processUrl"

\* C8, as a final result: once background processing has ended (it returned,
\* or it threw and the catch handler has run), the job is completed or failed.
C8_EndedJobIsTerminal ==
    jpc \in {"done", "caught"} => siteCapture.status \in Terminal

(***************************************************************************)
(* Claims about collectAllUrls (checked under SitemapSpec).                *)
(***************************************************************************)

FetchedSitemaps == {f[1] : f \in Range(result.fetched)}
ErrorCount(e) == Cardinality({i \in 1..Len(result.errors) : result.errors[i] = e})
IsLeaf(s) == world[s][1] = "leaf"
AllLeafUrls(s) == Range(LeafUrls(s, world[s][2]))

\* C9: collectAllUrls never returns more than maxPages URLs, whatever the
\* tree of sitemap indexes and leaves holds, and every nested sitemap it
\* fetched was fetched with budget left (the maxPages of a nested call is the
\* budget not yet used by the URLs collected before it).
C9_WithinBudget ==
    mpc = "done" =>
        /\ Len(result.urls) <= maxPages
        /\ \A i \in 2..Len(result.fetched) : result.fetched[i][2] >= 1
        /\ \A i \in 1..Len(result.fetched) :
              \* URLs collected from the sitemaps fetched before the i-th
              LET before == {u \in Range(result.urls) :
                                \E j \in 1..(i - 1) : result.fetched[j][1] = u[1]}
              IN  result.fetched[i][2] = maxPages - Cardinality(before)

\* The budget ran out in the middle of an index: a leaf with URLs that the
\* root index lists was not fetched.
C9_Witness ==
    /\ mpc = "done"
    /\ maxPages >= 2
    /\ Len(result.urls) = maxPages
    /\ world[RootSitemap] = Index
    /\ \E s \in Range(Children(RootSitemap)) :
          /\ IsLeaf(s)
          /\ world[s][2] > 0
          /\ s \notin FetchedSitemaps

DeepSitemap == 6
DeepParent == 5
\* The nested sitemaps of the root index after the branch that leads to the
\* deep sitemap.
ShallowSiblings == {3, 4}

\* collectAllUrls was called for the sitemap at depth MAX_SITEMAP_DEPTH: its
\* parent index was fetched (a nested call is only made with budget left).
DeepReached ==
    /\ DeepParent \in FetchedSitemaps
    /\ world[DeepParent] = Index

\* C11: the sitemap at recursion depth 3 is never fetched and none of its
\* URLs is in the result; when the recursion reaches it, the result holds
\* exactly one depth-limit error and no other entry for it, and the nested
\* sitemaps that follow at depth 1 are still fetched, their URLs being in the
\* result up to the budget.
C11_DepthLimitIsSoftError ==
    mpc = "done" =>
        /\ DeepSitemap \notin FetchedSitemaps
        /\ \A u \in Range(result.urls) : u[1] # DeepSitemap
        /\ ErrorCount(<<"fetch", DeepSitemap>>) = 0
        /\ DeepReached =>
              /\ ErrorCount(<<"depth", DeepSitemap>>) = 1
              /\ \A s \in ShallowSiblings :
                    \/ s \in FetchedSitemaps
                    \/ Len(result.urls) = maxPages
              /\ \A s \in ShallowSiblings :
                    IsLeaf(s) =>
                        \/ AllLeafUrls(s) \subseteq Range(result.urls)
                        \/ Len(result.urls) = maxPages
        /\ ~DeepReached => ErrorCount(<<"depth", DeepSitemap>>) = 0

\* The recursion reached the sitemap at depth 3, which lists URLs; the result
\* holds its depth-limit error and the URLs of the two leaves at depth 1.
C11_Witness ==
    /\ mpc = "done"
    /\ DeepReached
    /\ world[DeepSitemap] = Leaf(MaxLeafUrls)
    /\ ErrorCount(<<"depth", DeepSitemap>>) = 1
    /\ IsLeaf(3) /\ world[3][2] > 0
    /\ IsLeaf(4) /\ world[4][2] > 0
    /\ AllLeafUrls(3) \cup AllLeafUrls(4) \subseteq Range(result.urls)

(***************************************************************************)
(* Claims about the rate limiter (checked under RateSpec).                 *)
(***************************************************************************)

\* The entry of the keys array for an X-API-Key value.
ConfigOf(key) ==
    apiKeysConfig[CHOOSE i \in 1..Len(apiKeysConfig) : apiKeysConfig[i].key = key]
LimitOf(key) == parseRateLimit(ConfigOf(key).rateLimit)
\* The timestamps retained for a key.
WindowOf(key) == rateLimitWindows[ConfigOf(key).name].timestamps

\* C12: a request of a key with limit N per window W is admitted when fewer
\* than N requests of that key were admitted less than W before it (so the
\* first N requests are, and so is a request made once W has elapsed since
\* the oldest of the last N admitted ones, whatever was rejected in between),
\* and is rejected with retryAfter >= 1 when N of them were.
C12_FirstNAdmittedThenRejected ==
    lastRequest.status \in {200, 429} =>
        LET limit == LimitOf(lastRequest.key)
        IN  /\ lastRequest.ownRecent < limit.requests => lastRequest.status = 200
            /\ lastRequest.ownRecent >= limit.requests =>
                  /\ lastRequest.status = 429
                  /\ lastRequest.retryAfter >= 1

\* C13: a request made with one API key changes the retained timestamps of
\* no other API key.
C13_WindowsIndependentPerKey ==
    [][requests' = requests + 1 =>
          \A other \in Range(ApiKeyStrings) \ {lastRequest'.key} :
              WindowOf(other)' = WindowOf(other)]_vars

(***************************************************************************)
(* Claims about the expiry sweeper (checked under SweepSpec).              *)
(***************************************************************************)

RunningInvocations == {i \in Invocations : spc[i] \in Executing}

\* Invocation i leaves the catch block of the artifact whose blob deletion
\* rejected.
LeavesCatchAfterBlobFailure(i) ==
    /\ spc[i] = "markExpired"
    /\ spc'[i] # "markExpired"
    /\ Head(batch[i]) \in blobFailed

C15_SweeperNonReentrant ==
    [][/\ Cardinality(RunningInvocations') <= 1
       /\ \A i \in Invocations :
             (spc[i] = "idle" /\ spc'[i] # "idle" /\ RunningInvocations # {}) =>
                 /\ spc'[i] = "skipped"
                 /\ UNCHANGED <<batch, siteBatch, storeVars, ghostVars>>]_vars

\* An invocation was skipped while another one is in its artifact loop.
C15_Witness ==
    \E i, j \in Invocations :
        /\ spc[i] = "skipped"
        /\ spc[j] = "deleteBlob"
        /\ attempted = {Head(batch[j])}

(***************************************************************************)
(* Claims about shutdown and disconnects of the pool (checked under Spec).  *)
(***************************************************************************)

\* Calls that obtained a session and have returned or thrown.
EndedWithSession ==
    {c \in Callers : pc[c] \in {"done", "failed"} /\ failure[c] \in {"none", "capture"}}

\* C16: a captureScreenshot call that obtained a session has not released
\* it while its try block runs, releases it once in releasePage (page closed,
\* activePages decremented) whether the block returned or threw, and has
\* released it exactly once when the call has returned or thrown.
C16_SessionReleasedExactlyOnce ==
    \A c \in Callers :
        /\ releases[c] <= 1
        /\ pc[c] \in {"holding", "rel_close"} => releases[c] = 0
        /\ pc[c] \in {"rel_init", "rel_launch", "rel_newPage", "rel_ua"} =>
               releases[c] = 1 /\ ~page[c]
        /\ c \in EndedWithSession => releases[c] = 1 /\ ~page[c]

\* One call returned and another one threw in its try block; each released
\* its session once and no page is counted as active.
C16_Witness ==
    \E c, d \in Callers :
        /\ pc[c] = "done" /\ releases[c] = 1
        /\ pc[d] = "failed" /\ failure[d] = "capture" /\ releases[d] = 1
        /\ activePages = 0
        /\ LeasedSessions = 0

\* The callers whose lease closeBrowser rejected.
RejectedByClose == {c \in Callers : failure[c] = "rejected"}

\* C17: once closeBrowser has set isShuttingDown the queue is empty, each
\* lease it found queued has failed with Error('Browser is shutting down'),
\* and a caller that still waits for a lease is one that a releasePage had
\* taken off the queue before.
C17_QueuedLeasesRejectedOnShutdown ==
    /\ isShuttingDown =>
           /\ pageQueue = <<>>
           /\ \A c \in Callers : pc[c] = "queued" => c \in PendingHandoffs
    /\ \A c \in RejectedByClose : isShuttingDown /\ pc[c] = "failed"
    /\ ~isShuttingDown =>
           \A c \in Callers : pc[c] = "queued" =>
               c \in Range(pageQueue) \cup PendingHandoffs

\* closeBrowser rejected two queued leases.
C17_Witness ==
    /\ isShuttingDown
    /\ Cardinality(RejectedByClose) = 2
    /\ \A c \in RejectedByClose : pc[c] = "failed"

\* What is left of a closeBrowser call: the await of browser.close() and
\* the sleeps that fit into the rest of the grace period.
CloseBrowserRank ==
    CASE shutdown = "running" -> MaxWaitSleeps + 3
      [] shutdown = "waiting" -> MaxWaitSleeps - waited + 2
      [] shutdown = "closing" -> 1
      [] shutdown = "closed" -> 0

\* The continuation closeBrowser is waiting for can run.
CloseBrowserCanStep ==
    /\ shutdown = "waiting" => ENABLED CloseBrowserWait
    /\ shutdown = "closing" => ENABLED CloseBrowserClose

\* C18: closeBrowser terminates, whatever the captures in flight do: its
\* continuation is never blocked, each of its steps brings it nearer to its
\* return, its loop sleeps only while the grace period has not elapsed, and
\* the step after `await browser.close()` clears browser and ends the call
\* whether close resolved or threw.
C18_CloseBrowserTerminates ==
    /\ [](/\ CloseBrowserCanStep
          /\ shutdown = "waiting" => waited < MaxWaitSleeps)
    /\ [][/\ <<shutdown, waited>>' # <<shutdown, waited>> =>
                 CloseBrowserRank' < CloseBrowserRank
          /\ (shutdown = "closing" /\ shutdown' = "closed") => browser' = "null"]_vars

\* closeBrowser has returned after the whole grace period while a page is
\* still counted as active.
C18_Witness ==
    /\ shutdown = "closed"
    /\ waited = MaxWaitSleeps
    /\ activePages > 0
    /\ browser = "null"

\* C19: the step in which the engine disconnects leaves activePages at 0.
C19_DisconnectResetsActiveCount ==
    [][disconnects' > disconnects => activePages' = 0]_vars

Candidates ==
    (IF Truthy(providedUrl) THEN <<providedUrl>> ELSE <<>>)
    \o <<UrlOf("/sitemap.xml", baseUrl), UrlOf("/sitemap_index.xml", baseUrl)>>
    \o (IF Truthy(fromRobots) THEN <<fromRobots>> ELSE <<>>)

\* The fetchUrl calls that validate a candidate: all but the one of
\* /robots.txt, which is the fourth call of a request without a provided URL
\* and the fifth of one with it.
RobotsFetch == IF Truthy(providedUrl) THEN 4 ELSE 3
CandidateFetches ==
    SelectSeq([i \in 1..Len(fetches) |-> <<fetches[i][1], fetches[i][2], i>>],
              LAMBDA f : f[3] # RobotsFetch)

\* C21: the candidates are fetched in the order provided URL, /sitemap.xml,
\* /sitemap_index.xml, Sitemap directive of robots.txt, each one only after
\* every earlier one failed; the call returns the candidate whose fetch
\* resolved, which is the last fetch made, and throws only when every
\* candidate (the directive, if robots.txt gave one) was fetched and failed.
C21_FirstCandidateThatFetches ==
    dpc # "idle" =>
        /\ Len(CandidateFetches) <= Len(Candidates)
        /\ \A i \in 1..Len(CandidateFetches) :
              /\ CandidateFetches[i][1] = Candidates[i]
              /\ i < Len(CandidateFetches) => CandidateFetches[i][2] = "failed"
        /\ Len(fetches) >= RobotsFetch =>
              fetches[RobotsFetch][1] = UrlOf("/robots.txt", baseUrl)
        /\ dpc = "returned" =>
              /\ fetches[Len(fetches)] = <<discovered, "ok">>
              /\ discovered = Candidates[Len(CandidateFetches)]
        /\ dpc = "thrown" =>
              /\ Len(CandidateFetches) = Len(Candidates)
              /\ \A i \in 1..Len(CandidateFetches) : CandidateFetches[i][2] = "failed"
              /\ Len(fetches) = Len(Candidates) + 1
              /\ Range(tried) = Range(Candidates)

\* The provided URL, /sitemap.xml and /sitemap_index.xml failed and the
\* directive of robots.txt was returned.
C21_Witness ==
    /\ dpc = "returned"
    /\ Truthy(providedUrl)
    /\ Len(tried) = 3
    /\ discovered = fromRobots
    /\ discovered = "https://a.example/sitemaps/main.xml"

(***************************************************************************)
(* Further claims about the site crawl job (checked under SiteSpec).       *)
(***************************************************************************)

\* Workers that have been started.
Started == {w \in Workers : wpc[w] # "unstarted"}

\* C22: the handler answers 202 in the step in which the row comes to exist
\* in 'processing', with the number of URLs of the job as totalPages and
\* before any worker is started; no worker is started before the answer,
\* and nothing the background task does changes the answer.
C22_AcknowledgedBeforeProcessing ==
    [][/\ (response = NoResponse /\ response'.status = 202) =>
              /\ siteCapture.status = "none"
              /\ siteCapture'.status = "processing"
              /\ response'.totalPages = totalUrls
              /\ siteCapture'.totalPages = totalUrls
              /\ Started' = {}
       /\ (Started = {} /\ Started' # {}) => response.status = 202
       /\ response # NoResponse => response' = response]_vars

\* The job was acknowledged with three pages and its background task ended
\* in the catch handler.
C22_Witness ==
    /\ response = [status |-> 202, totalPages |-> 3]
    /\ jpc = "caught"
    /\ siteCapture.status = "processing"

\* C23: when processUrl returns false for a URL, the worker counts one
\* failed page and goes on to its progress update: it does not throw, the
\* other workers, the queue and the background task are as before. After a
\* progress update that was applied the worker takes the next URL of the
\* queue whatever the result of the last one was, and once every worker has
\* returned every URL of the job was processed once and the failed URLs are
\* the ones counted.
C23_UrlFailureDoesNotAbort ==
    [][/\ \A w \in Workers :
             /\ (wpc[w] = "processUrl" /\ wpc'[w] # "processUrl"
                     /\ outcome'[entry[w]] = "fail") =>
                    /\ failedCount' = failedCount + 1
                    /\ capturedCount' = capturedCount
                    /\ wpc' = [wpc EXCEPT ![w] = "updating"]
                    /\ UNCHANGED <<queue, jpc, entry>>
             /\ (wpc[w] = "updating" /\ wpc'[w] \notin {"updating", "thrown"}) =>
                    IF Len(queue) > 0
                    THEN wpc'[w] = "processUrl" /\ entry'[w] = Head(queue)
                    ELSE wpc'[w] = "returned"
       /\ AllWorkersReturned' =>
             /\ \A u \in JobUrls' : handled'[u] = 1
             /\ failedCount' = NumFailed']_vars

\* The first URL of a job of three failed, the other two were captured and
\* the job was completed.
C23_Witness ==
    /\ totalUrls = 3
    /\ outcome = <<"fail", "ok", "ok">>
    /\ AllWorkersReturned
    /\ failedCount = 1 /\ capturedCount = 2
    /\ jpc = "done"
    /\ siteCapture.status = "completed"

(***************************************************************************)
(* Further claims about the expiry sweeper (checked under SweepSpec).      *)
(***************************************************************************)

\* The artifacts whose row is marked 'expired'.
MarkedExpired == {a \in Artifacts : screenshots[a] = "expired"}

\* C24: when getExpiredScreenshots of a sweep run returns, the artifacts it
\* returns include every artifact that is marked expired.
C24_ExpiredArtifactRetried ==
    [][\A i \in Invocations :
          (spc[i] = "select" /\ spc'[i] \in {"deleteBlob", "selectSites"}) =>
              MarkedExpired \subseteq selected']_vars

\* C29: when no sweep run is under way, no artifact whose row is gone still
\* has its blob in the bucket.
C29_NoBlobWithoutRecord ==
    RunningInvocations = {} =>
        \A a \in Artifacts : screenshots[a] = "deleted" => ~blobs[a]

(***************************************************************************)
(* Claims about shutdown (checked under ShutdownSpec).                     *)
(***************************************************************************)

\* Every `later` in the calls made so far comes after some `earlier`.
ComesAfter(later, earlier) ==
    \A k \in 1..Len(steps) :
        steps[k] = later => \E j \in 1..(k - 1) : steps[j] = earlier

\* C25: the shutdown handlers make their calls in the order server.close,
\* stopCleanupJob, closeBrowser, closePool, and the database pool is open
\* until a closeBrowser call has returned (with the server closed and the
\* sweeper's timer cleared).
C25_ShutdownOrder ==
    /\ ComesAfter("stopCleanupJob", "server.close")
    /\ ComesAfter("closeBrowser", "stopCleanupJob")
    /\ ComesAfter("closeBrowser returned", "closeBrowser")
    /\ ComesAfter("closePool", "closeBrowser returned")
    /\ dbPool # "open" =>
          /\ \E k \in 1..Len(steps) : steps[k] = "closeBrowser returned"
          /\ ~listening
          /\ cleanupInterval = "null"

\* A shutdown that waited for active pages has closed the database pool
\* while the call of a second signal is still inside closeBrowser.
C25_Witness ==
    /\ dbPool = "null"
    /\ \E i \in Signals : slept[i] > 0 /\ sdpc[i] = "exited"
    /\ \E i \in Signals : sdpc[i] \in {"sleep", "browserClose"}

(***************************************************************************)
(* Claims about the slots of the session pool (checked under Spec).        *)
(***************************************************************************)

\* The calls a slot was taken for and not given back: those inside
\* acquirePage after activePages++, those that hold a page or are closing it,
\* and the dequeued leases a releasePage has incremented the counter for.
SlotHolders ==
    {c \in Callers :
        pc[c] \in {"acq_init", "acq_launch", "acq_newPage", "acq_ua", "holding",
                   "rel_close"}}
    \cup {next[c] : c \in {d \in Callers : pc[d] \in {"rel_newPage", "rel_ua"}}}

\* C26: activePages is the number of calls that are opening, holding or
\* closing a session.
C26_ActivePagesCountsSessions == activePages = Cardinality(SlotHolders)

\* The calls that will still run releasePage's hand-off or are running it.
WillRelease ==
    {c \in Callers :
        pc[c] \in {"acq_init", "acq_launch", "acq_newPage", "acq_ua", "holding",
                   "rel_close", "rel_init", "rel_launch", "rel_newPage", "rel_ua"}}

\* C27: while leases are queued, closeBrowser has not been called and no call
\* has failed inside acquirePage, some call is on its way to releasePage or is
\* handing a session over, so that the head of the queue will be served.
C27_QueuedLeaseIsServed ==
    (/\ pageQueue # <<>>
     /\ ~isShuttingDown
     /\ \A c \in Callers : failure[c] # "acquire") => WillRelease # {}

(***************************************************************************)
(* A further claim about the site crawl job (checked under SiteSpec).      *)
(***************************************************************************)

\* C28: no step lowers the capturedPages or the failedPages stored in the
\* job row.
C28_StoredCountersNeverDecrease ==
    [][/\ siteCapture'.capturedPages >= siteCapture.capturedPages
       /\ siteCapture'.failedPages >= siteCapture.failedPages]_vars

(***************************************************************************)
(* A further claim about the rate limiter (checked under RateSpec).        *)
(***************************************************************************)

\* The admitted requests of key in the interval of length windowMs that ends
\* with the i-th of them.
AdmittedInWindowEndingAt(key, i, windowMs) ==
    {j \in 1..Len(admitted[key]) :
        /\ admitted[key][j] <= admitted[key][i]
        /\ admitted[key][i] - admitted[key][j] < windowMs}

\* C30: for every enabled key, no interval of length windowMs holds more admitted
\* requests of the key than its limit, the timestamps retained for the key
\* are at most limit many, and after an admitted request they are all younger
\* than windowMs.
C30_SlidingWindowBound ==
    apiKeysConfig # <<>> =>
        \A key \in {k \in Range(ApiKeyStrings) : ConfigOf(k).enabled} :
            LET limit == LimitOf(key)
            IN  /\ \A i \in 1..Len(admitted[key]) :
                      Cardinality(AdmittedInWindowEndingAt(key, i, limit.windowMs))
                          <= limit.requests
                /\ Len(WindowOf(key)) <= limit.requests
                /\ (lastRequest.key = key /\ lastRequest.status = 200) =>
                      \A k \in 1..Len(WindowOf(key)) :
                          lastRequest.at - WindowOf(key)[k] < limit.windowMs

(***************************************************************************)
(* Claims about the artifact loop of the sweeper (checked under SweepSpec). *)
(***************************************************************************)

C32_FailedCaptureStoresNothing ==
    \A u \in Urls : outcome[u] = "fail" => stored[u] = NothingStored

(***************************************************************************)
(* Further claims about the pool during shutdown and about the queue       *)
(* (checked under Spec).                                                   *)
(***************************************************************************)

\* C33: once isShuttingDown is set, no step opens a session and no step sets
\* browser to a launched browser.
C33_NothingOpensDuringShutdown ==
    [][isShuttingDown =>
          /\ \A c \in Callers : page'[c] => page[c]
          /\ browser' = "open" => browser = "open"]_vars

(***************************************************************************)
(* A claim about the sweep of site jobs (checked under SweepSpec).         *)
(***************************************************************************)

\* C34: the step that deletes the site job finds it completed or failed.
C34_OnlyTerminalJobsDeleted ==
    [][(siteJob # "deleted" /\ siteJob' = "deleted") =>
          siteJob \in {"completed", "failed"}]_vars

(***************************************************************************)
(* Claims about the queue of leases (checked under QueueSpec).             *)
(***************************************************************************)

\* The place of lease l in the order of the pushes.
EnqueuedAt(l) == CHOOSE k \in 1..Len(enqueued) : enqueued[k] = l

\* C35 as stated: a lease is pushed only at the ceiling, a queued lease gets
\* its session only from the hand-off of a release that shifted it and is
\* rejected only by closeBrowser, and the queued leases are granted their
\* sessions in the order in which they were pushed.
C35_GrantedInQueueOrder ==
    /\ \A i, j \in 1..Len(grants) :
          i < j => EnqueuedAt(grants[i]) < EnqueuedAt(grants[j])
    /\ \A l \in Range(enqueued) :
          /\ lpc[l] = "holding" => l \in Range(shifted)
          /\ lpc[l] \in {"rejected", "failed"} => stopping

\* C35 amended: a queued lease leaves the queue only when a release shifts it
\* or closeBrowser rejects it; the leases are shifted in the order in which
\* they were pushed; a shifted lease is granted its session by that release's
\* hand-off or rejected by it when opening the session fails, and every
\* granted lease was shifted before.
C35_ShiftedInQueueOrder ==
    /\ shifted = SubSeq(enqueued, 1, Len(shifted))
    /\ \A l \in Range(enqueued) :
          /\ lpc[l] = "queued" <=> l \in Range(waitingLeases)
          /\ lpc[l] \in {"handoff", "handoffOpening", "holding", "released", "failed"}
                => l \in Range(shifted)
          /\ lpc[l] = "rejected" => stopping /\ l \notin Range(shifted)
    /\ Range(grants) \subseteq Range(shifted)
    /\ waitingLeases # <<>> =>
          waitingLeases = SubSeq(enqueued, Len(shifted) + 1, Len(enqueued))

\* Two queued leases were shifted in the order of their pushes and both were
\* granted a session, the second one first.
C35_Witness ==
    /\ Len(grants) = 2
    /\ shifted = enqueued
    /\ EnqueuedAt(grants[1]) > EnqueuedAt(grants[2])

(***************************************************************************)
(* Claims about the steps of a capture (checked under CaptureSpec).        *)
(***************************************************************************)

\* The steps of a capture with the given arguments, in the stated order.
StatedSteps(args) ==
    <<"setViewport", "emulateMediaFeatures", "goto", "addStyleTag">>
    \o (IF args.fullPage THEN <<"evaluate", "lazyWait">> ELSE <<>>)
    \o (IF args.waitTime > 0 THEN <<"wait">> ELSE <<>>)
    \o <<"screenshot">>

\* C36: the page operations of a capture are invoked in the order viewport,
\* reduced motion, navigation, reveal style, scroll pass (only when
\* fullPage), caller's wait, snapshot, each after the one before resolved;
\* once a step has failed no further step is invoked, no snapshot is taken
\* and the capture fails, and a capture that returns a buffer ran them all.
C36_StepsInOrder ==
    /\ [](\A c \in Captures :
            /\ trail[c] = SubSeq(StatedSteps(capArgs[c]), 1, Len(trail[c]))
            /\ capResult[c] = "captured" => trail[c] = StatedSteps(capArgs[c])
            /\ capPc[c] = "done" => capResult[c] \in {"captured", "failed"})
    /\ [][\A c \in Captures :
            /\ capResult[c] = "failed" =>
                  /\ trail'[c] = trail[c]
                  /\ capResult'[c] = "failed"
            /\ (capResult[c] = "pending" /\ capResult'[c] = "failed") =>
                  /\ capPc[c] = trail[c][Len(trail[c])]
                  /\ capPc[c] # "screenshot" => "screenshot" \notin Range(trail'[c])]_vars

\* A full-page capture with a caller's wait returned its buffer after every
\* step, and another capture settled as failed when its navigation rejected.
C36_Witness ==
    \E c, d \in Captures :
        /\ capResult[c] = "captured" /\ capArgs[c].fullPage /\ capArgs[c].waitTime > 0
        /\ Len(trail[c]) = 8
        /\ capResult[d] = "failed" /\ capPc[d] = "done"
        /\ trail[d] = <<"setViewport", "emulateMediaFeatures", "goto">>

(***************************************************************************)
(* Claims about collectAllUrls call by call (checked under CrawlFairSpec). *)
(***************************************************************************)

RECURSIVE SumOfPowers(_, _)
\* 1 + b + b^2 + ... + b^(n-1)
SumOfPowers(b, n) == IF n = 0 THEN 0 ELSE 1 + b * SumOfPowers(b, n - 1)

\* C37: a collectAllUrls call returns, whatever the sitemaps list (themselves
\* and each other included), provided every fetch settles: no call is nested
\* deeper than MAX_SITEMAP_DEPTH, so that the calls in progress and the
\* fetches made stay bounded by the depth and the length of the lists.
C37_CollectTerminates ==
    /\ [](/\ Len(frames) <= MAX_SITEMAP_DEPTH + 1
          /\ \A k \in 1..Len(frames) : frames[k].depth = k - 1
          /\ fetchCount <= SumOfPowers(NumSitemaps, MAX_SITEMAP_DEPTH))
    /\ (kpc = "crawling") ~> (kpc = "done")

\* The call returned on a site whose root sitemap is an index listing itself
\* and another index that lists both: every level down to the depth limit
\* was fetched and every call at the limit reported the depth error.
C37_Witness ==
    /\ kpc = "done"
    /\ \A s \in SitemapUrls : graph[s] = [kind |-> "index", nested |-> SitemapUrls]
    /\ fetchCount = SumOfPowers(NumSitemaps, MAX_SITEMAP_DEPTH)
    /\ crawlResult.urls = 0
    /\ crawlResult.errors > 0

(***************************************************************************)
(* Claims about the end of a sweep (checked under SweepSpec).              *)
(***************************************************************************)

\* The invocations that started a run and have not left runCleanup.
InRun == {i \in DOMAIN spc : spc[i] \notin {"idle", "skipped", "done"}}

\* C38: isRunning is true only while an invocation that started a run is
\* still inside runCleanup: when that invocation leaves, through the end of
\* the try block or through the catch block after a rejected call, the flag
\* is false again, and an invocation is skipped only while such a run is in
\* progress.
C38_FlagClearedAfterRun ==
    /\ [](isRunning <=> InRun # {})
    /\ [][\A i \in DOMAIN spc :
            /\ (i \in InRun /\ spc'[i] = "done") => ~isRunning'
            /\ (spc[i] = "idle" /\ spc'[i] = "skipped") => InRun # {}]_vars

\* A run left runCleanup through the catch block, getExpiredSiteCaptures
\* having rejected, and the flag is false for the invocations still to come.
C38_Witness ==
    /\ \E i \in DOMAIN spc : spc[i] = "done"
    /\ \E j \in DOMAIN spc : spc[j] = "idle"
    /\ sitesSwept = "rejected"
    /\ ~isRunning

(***************************************************************************)
(* Claims about the POST /site handler (checked under SubmitSpec).         *)
(***************************************************************************)

\* C39: a site job row exists only when the sitemap was found and
\* collectAllUrls returned at least one URL, and its totalPages is between 1
\* and the maxPages of the request; a request whose sitemap was not found or
\* gave no URL is answered 400, and for it no row is inserted and no
\* background processing is scheduled.
C39_JobOnlyWithUrls ==
    /\ jobRow.exists =>
          /\ sitemapFound = "found"
          /\ sitemapResult.collected
          /\ jobRow.totalPages = sitemapResult.urls
          /\ 1 <= jobRow.totalPages /\ jobRow.totalPages <= parsed.maxPages
    /\ background # "none" => jobRow.exists
    /\ (hpc \notin {"idle", "discoverSitemapUrl", "collectAllUrls"}
        /\ (sitemapFound = "notFound" \/ (sitemapResult.collected /\ sitemapResult.urls = 0)))
       => /\ reply.status = 400
          /\ ~jobRow.exists
          /\ background = "none"

\* Two of the cases: a job was created for a request whose sitemaps gave
\* exactly maxPages URLs and some errors, and its processing began.
C39_Witness ==
    /\ jobRow.exists /\ background = "running"
    /\ jobRow.totalPages = parsed.maxPages /\ parsed.maxPages > 1
    /\ sitemapResult.errors > 0
    /\ reply.status = 202

(***************************************************************************)
(* Claims about the GET handlers (checked under ServeSpec).                *)
(***************************************************************************)

\* C40 as stated: whenever a response is sent for an artifact whose row has
\* status expired or whose deadline has passed, the artifact is not served:
\* the response is 410 (or 500, when a call of the handler itself rejected).
C40_ExpiredAnswered410 ==
    [][\A r \in Gets :
         (/\ gstatus[r] = 0 /\ gstatus'[r] # 0
          /\ gpc[r] # "idle"
          /\ shot # "none" /\ (shot = "expired" \/ shotPast))
         => gstatus'[r] \in {410, 500}]_vars

\* C40 amended: the expiry is tested once, on the row getScreenshot gave.
\* A request whose row was read while the artifact was expired or past its
\* deadline is answered 410 at once and nothing of the artifact is sent; a
\* 200 is sent only on requests whose row passed the test when it was read.
C40_ExpiredWhenReadAnswered410 ==
    /\ [](\A r \in Gets :
            /\ gread[r] = "gone" => gstatus[r] = 410
            /\ gstatus[r] = 200 => gread[r] = "live")
    /\ [][\A r \in Gets :
            (/\ gpc[r] = "getScreenshot"
             /\ gread'[r] \notin {"unread", "rejected"}
             /\ shot # "none" /\ (shot = "expired" \/ shotPast))
            => /\ gread'[r] = "gone"
               /\ gstatus'[r] = 410]_vars

\* Both routes answered 410 for an artifact past its deadline whose row is
\* still completed and whose object is still in the bucket.
C40_Witness ==
    \E r, q \in Gets :
        /\ gkind[r] = "metadata" /\ gkind[q] = "download"
        /\ gstatus[r] = 410 /\ gstatus[q] = 410
        /\ shot = "completed" /\ shotPast /\ shotBlob

====
